---- MODULE Spec2Model ----
(***************************************************************************)
(* parent-map-next: the geospatial matching layer (Haversine distance,     *)
(* nearest rainfall cell, carpark radius filter, map place culling), the   *)
(* home page's place filter, and the localStorage-backed data hooks        *)
(* (useRainfallNowcast, useCarparks).                                      *)
(*                                                                         *)
(* Fixed point: coordinates are integers in millidegrees (22.32 deg is     *)
(* 22320) and distances are integers in metres (1 km is 1000), so that     *)
(* the comparisons the code makes on floats are decided on integers.       *)
(***************************************************************************)
EXTENDS Integers, Sequences, FiniteSets, TLC

VARIABLES
    call,       \* the pure function applied last ("none" before any call)
    args,       \* its arguments
    ret,        \* its return value
    after,      \* its input array as the call leaves it
    clock,      \* Date.now(), in ms
    ticks,      \* how many times the clock has advanced
    storage,    \* localStorage: hook -> its payload key and its time key
    effects,    \* hook -> its effect runs so far (one per mount), in mount order
    home,       \* Home's useState values
    leaflet,    \* the map component: its view and MapViewController's ref
    parentMapFavorites  \* localStorage: the key "parentMapFavorites"

pureVars == <<call, args, ret, after>>
hookVars == <<clock, ticks, storage, effects>>
pageVars == <<home, leaflet, parentMapFavorites>>
vars == <<call, args, ret, after, clock, ticks, storage, effects,
          home, leaflet, parentMapFavorites>>

(***************************************************************************)
(* Bounds of the model.                                                    *)
(***************************************************************************)
MaxLen == 3
MaxResultsBound == 3
MaxMounts == 2
MaxTicks == 2

(***************************************************************************)
(* Program constants.                                                      *)
(***************************************************************************)
MIN_ZOOM_FOR_PINS == 13
MAX_PLACES_ON_MAP == 50
SHOW_RADIUS_KM == 4
INITIAL_ZOOM == 11

Km(n) == n * 1000

\* getRainfallAtLocation's null, in the shape of a grid point
null == [lat |-> 0, lng |-> 0, rainfall |-> -1]

\* selectedPlaceId = null
NoId == 0

Min(a, b) == IF a <= b THEN a ELSE b

\* Number.prototype.toString: the decimal digits of n >= 0
RECURSIVE toString(_)
toString(n) ==
    IF n < 10 THEN <<ToString(n)>>
    ELSE toString(n \div 10) \o <<ToString(n % 10)>>

\* parseInt on a string of decimal digits
RECURSIVE parseInt(_)
parseInt(str) ==
    IF Len(str) = 0 THEN 0
    ELSE 10 * parseInt(SubSeq(str, 1, Len(str) - 1))
         + (CHOOSE d \in 0..9 : ToString(d) = str[Len(str)])

(***************************************************************************)
(* Math.sqrt on a non-negative integer, rounded down (bisection).          *)
(***************************************************************************)
RECURSIVE sqrtBisect(_, _, _)
sqrtBisect(n, lo, hi) ==
    IF hi - lo <= 1 THEN lo
    ELSE LET mid == (lo + hi) \div 2
         IN IF mid * mid <= n THEN sqrtBisect(n, mid, hi)
                              ELSE sqrtBisect(n, lo, mid)

sqrt(n) == sqrtBisect(n, 0, 46341)

(***************************************************************************)
(* Math.cos(lat * Math.PI / 180), lat in millidegrees, result scaled by    *)
(* 10^4: the Taylor series 1 - x^2/2 + x^4/24 - x^6/720 on x scaled by     *)
(* 10^4 (17453 / 10^5 is PI / 180000 scaled by 10^4).                      *)
(***************************************************************************)
cos(lat) ==
    LET x  == (lat * 17453) \div 100000
        x2 == (x * x) \div 10000
        x4 == (x2 * x2) \div 10000
        x6 == (x4 * x2) \div 10000
    IN 10000 - (x2 \div 2) + (x4 \div 24) - (x6 \div 720)

(***************************************************************************)
(* calculateDistance: the Haversine formula with R = 6371 km.  With        *)
(* u = dLat and v = dLng in millidegrees, sin(d/2)^2 is taken as (d/2)^2   *)
(* and 2*atan2(sqrt(a), sqrt(1-a)) as 2*sqrt(a); both are exact to 10^-6   *)
(* relative for the distances of this application (points at most 0.3      *)
(* degrees apart).  Then R*c = R * (PI/180000) * sqrt(u^2 + cos1*cos2*v^2), *)
(* and R * PI / 180000 = 111.19 m per millidegree.  The result is in       *)
(* metres.                                                                 *)
(***************************************************************************)
\* calculateDistance taking both cosines at the first point's latitude
calculateDistanceOwnLatitude(lat1, lng1, lat2, lng2) ==
    LET dLat == lat2 - lat1
        dLng == lng2 - lng1
        cc   == (cos(lat1) * cos(lat1)) \div 10000
        a    == dLat * dLat * 10000 + cc * dLng * dLng
        c    == sqrt(a)
    IN (c * 11119) \div 10000

calculateDistance(lat1, lng1, lat2, lng2) ==
    LET dLat == lat2 - lat1
        dLng == lng2 - lng1
        cc   == (cos(lat1) * cos(lat2)) \div 10000
        a    == dLat * dLat * 10000 + cc * dLng * dLng
        c    == sqrt(a)
    IN (c * 11119) \div 10000

(***************************************************************************)
(* The comparators handed to Array.prototype.sort: getNearbyCarparks'      *)
(* (a, b) => a.distance - b.distance and useFilteredPlaces' selected-first *)
(* comparator.                                                             *)
(***************************************************************************)
\* byDistance with its operands swapped
byDistanceSwapped(a, b) == b.distance - a.distance

byDistance(a, b) == a.distance - b.distance

selectedFirst(a, b) ==
    IF a.isSelected /\ ~b.isSelected THEN -1
    ELSE IF ~a.isSelected /\ b.isSelected THEN 1
    ELSE a.distance - b.distance

\* page.tsx's calculateDistanceKm: the same formula, R = 6371
calculateDistanceKm(lat1, lng1, lat2, lng2) == calculateDistance(lat1, lng1, lat2, lng2)

\* priceOrder = { free: 0, low: 1, medium: 2, high: 3 }
priceOrder(priceType) ==
    CASE priceType = "free" -> 0
      [] priceType = "low" -> 1
      [] priceType = "medium" -> 2
      [] priceType = "high" -> 3

\* bySortMode with priceHigh ordering as priceLow does
bySortModeAscendingOnly(sortBy, refPoint, a, b) ==
    IF sortBy = "distance"
    THEN calculateDistanceKm(refPoint.lat, refPoint.lng, a.lat, a.lng)
         - calculateDistanceKm(refPoint.lat, refPoint.lng, b.lat, b.lng)
    ELSE IF sortBy \in {"priceLow", "priceHigh"}
         THEN priceOrder(a.priceType) - priceOrder(b.priceType)
    ELSE 0

\* the comparator of Home.filteredPlaces' sort
bySortMode(sortBy, refPoint, a, b) ==
    IF sortBy = "distance"
    THEN calculateDistanceKm(refPoint.lat, refPoint.lng, a.lat, a.lng)
         - calculateDistanceKm(refPoint.lat, refPoint.lng, b.lat, b.lng)
    ELSE IF sortBy = "priceLow" THEN priceOrder(a.priceType) - priceOrder(b.priceType)
    ELSE IF sortBy = "priceHigh" THEN priceOrder(b.priceType) - priceOrder(a.priceType)
    ELSE 0

\* the comparator of the earlier Home.filteredPlaces (part_001 154-166);
\* userLocation is the sequence of 0 (null) or 1 point
bySortMode_part001(sortBy, userLocation, a, b) ==
    IF sortBy = "distance" /\ userLocation # <<>>
    THEN calculateDistance(userLocation[1].lat, userLocation[1].lng, a.lat, a.lng)
         - calculateDistance(userLocation[1].lat, userLocation[1].lng, b.lat, b.lng)
    ELSE IF sortBy = "price" THEN priceOrder(a.priceType) - priceOrder(b.priceType)
    ELSE 0

\* cmp names the comparator and carries what it closes over
compare(cmp, a, b) ==
    CASE cmp.name = "byDistance" -> byDistance(a, b)
      [] cmp.name = "selectedFirst" -> selectedFirst(a, b)
      [] cmp.name = "bySortMode" -> bySortMode(cmp.sortBy, cmp.refPoint, a, b)
      [] cmp.name = "bySortMode_part001" ->
             bySortMode_part001(cmp.sortBy, cmp.userLocation, a, b)

(***************************************************************************)
(* Array.prototype.sort with comparator cmp: a stable sort.  Element i of  *)
(* the input lands after every element that compares before it and after   *)
(* every earlier element that compares equal to it.                        *)
(***************************************************************************)
\* sort placing equal elements in reverse input order
sortTiesReversed(s, cmp) ==
    LET n == Len(s)
        rank(i) == 1 + Cardinality({j \in 1..n :
                        \/ compare(cmp, s[j], s[i]) < 0
                        \/ compare(cmp, s[j], s[i]) = 0 /\ j > i})
    IN [k \in 1..n |-> s[CHOOSE i \in 1..n : rank(i) = k]]

sort(s, cmp) ==
    LET n == Len(s)
        rank(i) == 1 + Cardinality({j \in 1..n :
                        \/ compare(cmp, s[j], s[i]) < 0
                        \/ compare(cmp, s[j], s[i]) = 0 /\ j < i})
    IN [k \in 1..n |-> s[CHOOSE i \in 1..n : rank(i) = k]]

(***************************************************************************)
(* Arrays under a chain of array methods.  An array is followed as the     *)
(* record of its current elements (value), of whether it is the array the  *)
(* chain started from or one a method created (ref), and of the elements   *)
(* of the array the chain started from (input).  map, filter and slice     *)
(* return a new array; sort sorts the array it is called on in place and   *)
(* returns it.                                                             *)
(***************************************************************************)
chainOf(input) == [ref |-> "input", value |-> input, input |-> input]

\* a method that overwrote the array it is called on with its result
overwritten(c, value) ==
    [ref |-> c.ref, value |-> value,
     input |-> IF c.ref = "input" THEN value ELSE c.input]

\* the result of map, filter or slice on c: a new array holding value
created(c, value) == [ref |-> "fresh", value |-> value, input |-> c.input]

\* Array.prototype.sort on c
sortInPlace(c, cmp) ==
    LET sorted == sort(c.value, cmp)
    IN [ref |-> c.ref, value |-> sorted,
        input |-> IF c.ref = "input" THEN sorted ELSE c.input]

\* slice taking the element at index end too
sliceInclusive(s, start, end) == SubSeq(s, start + 1, Min(end + 1, Len(s)))

\* Array.prototype.slice(start, end) for 0 <= start and 0 <= end
slice(s, start, end) == SubSeq(s, start + 1, Min(end, Len(s)))

(***************************************************************************)
(* parseRainfallCSV (rainfall.ts 12-36).  Text is a sequence of            *)
(* one-character strings.  Coordinates are written in the text in          *)
(* millidegrees, the unit of this model, so parseFloat reads a whole       *)
(* number of decimal digits.                                               *)
(***************************************************************************)
\* String.prototype.trim
RECURSIVE trim(_)
trim(str) ==
    IF str # <<>> /\ Head(str) \in {" ", "\n"} THEN trim(Tail(str))
    ELSE IF str # <<>> /\ str[Len(str)] \in {" ", "\n"}
         THEN trim(SubSeq(str, 1, Len(str) - 1))
    ELSE str

\* String.prototype.split(sep) for a one-character separator
RECURSIVE split(_, _)
split(str, sep) ==
    LET at == {i \in 1..Len(str) : str[i] = sep}
    IN IF at = {} THEN <<str>>
       ELSE LET i == CHOOSE d \in at : \A e \in at : d <= e
            IN <<SubSeq(str, 1, i - 1)>> \o split(SubSeq(str, i + 1, Len(str)), sep)

\* parseFloat on a string of decimal digits
parseFloat(str) == parseInt(str)

\* the record pushed for one line, as the sequence of 0 or 1 record: a blank
\* line and a line of fewer than 5 fields are skipped
parseLine(rawLine) ==
    LET line  == trim(rawLine)
        parts == split(line, ",")
    IN IF line = <<>> \/ Len(parts) < 5 THEN <<>>
       ELSE <<[startTime |-> trim(parts[1]),
               endTime   |-> trim(parts[2]),
               lat       |-> parseFloat(parts[3]),
               lng       |-> parseFloat(parts[4]),
               rainfall  |-> parseFloat(parts[5])]>>

\* the loop over lines[i], i >= 1 (0-based): the header line is skipped
RECURSIVE parseLines(_, _)
parseLines(lines, i) ==
    IF i > Len(lines) THEN <<>>
    ELSE parseLine(lines[i]) \o parseLines(lines, i + 1)

parseRainfallCSV(csvText) == parseLines(split(trim(csvText), "\n"), 2)

(***************************************************************************)
(* getRainfallAtLocation (rainfall.ts): the linear scan for the nearest    *)
(* grid point.  scanNearest is the for-of loop from index i on, carrying   *)
(* nearest and minDistance.                                                *)
(***************************************************************************)
\* scanNearest with "distance <= minDistance": the last of several nearest wins
RECURSIVE scanNearestLastWins(_, _, _, _, _, _)
scanNearestLastWins(gridPoints, lat, lng, i, nearest, minDistance) ==
    IF i > Len(gridPoints) THEN nearest
    ELSE LET point == gridPoints[i]
             distance == calculateDistance(lat, lng, point.lat, point.lng)
         IN IF distance <= minDistance
            THEN scanNearestLastWins(gridPoints, lat, lng, i + 1, point, distance)
            ELSE scanNearestLastWins(gridPoints, lat, lng, i + 1, nearest, minDistance)

RECURSIVE scanNearest(_, _, _, _, _, _)
scanNearest(gridPoints, lat, lng, i, nearest, minDistance) ==
    IF i > Len(gridPoints) THEN nearest
    ELSE LET point == gridPoints[i]
             distance == calculateDistance(lat, lng, point.lat, point.lng)
         IN IF distance < minDistance
            THEN scanNearest(gridPoints, lat, lng, i + 1, point, distance)
            ELSE scanNearest(gridPoints, lat, lng, i + 1, nearest, minDistance)

getRainfallAtLocation(gridPoints, lat, lng) ==
    IF Len(gridPoints) = 0 THEN null
    ELSE scanNearest(gridPoints, lat, lng, 1, gridPoints[1],
             calculateDistance(lat, lng, gridPoints[1].lat, gridPoints[1].lng))

(***************************************************************************)
(* getNearbyCarparks (rainfall.ts 318-341, carpark.ts 93-116): decorate    *)
(* with the distance, keep distance <= radiusKm, sort ascending.           *)
(***************************************************************************)
withDistance(carpark, centerLat, centerLng) ==
    [park_Id   |-> carpark.park_Id,
     latitude  |-> carpark.latitude,
     longitude |-> carpark.longitude,
     distance  |-> calculateDistance(centerLat, centerLng,
                                     carpark.latitude, carpark.longitude)]

\* withinRadius with a strict bound
withinRadiusStrict(c, radiusKm) == c.distance < radiusKm

withinRadius(c, radiusKm) == c.distance <= radiusKm

\* the chain carparks.map(...).filter(...).sort(...)
getNearbyCarparksChain(carparks, centerLat, centerLng, radiusKm) ==
    LET mapped == created(chainOf(carparks),
                      [i \in 1..Len(carparks) |->
                          withDistance(carparks[i], centerLat, centerLng)])
        kept   == created(mapped,
                      SelectSeq(mapped.value, LAMBDA c : withinRadius(c, radiusKm)))
    IN sortInPlace(kept, [name |-> "byDistance"])

getNearbyCarparks(carparks, centerLat, centerLng, radiusKm) ==
    getNearbyCarparksChain(carparks, centerLat, centerLng, radiusKm).value

(***************************************************************************)
(* CarparkList.nearbyCarparks (part_004, 27-29).                           *)
(***************************************************************************)
nearbyCarparks(carparks, placeLat, placeLng, radiusKm, maxResults) ==
    slice(getNearbyCarparks(carparks, placeLat, placeLng, radiusKm), 0, maxResults)

(***************************************************************************)
(* useFilteredPlaces (MapInner.tsx 116-166).                               *)
(***************************************************************************)
\* places.find(p => p.id === selectedPlaceId), as the sequence of 0 or 1 place
findPlace(places, selectedPlaceId) ==
    LET hits == {i \in 1..Len(places) : places[i].id = selectedPlaceId}
    IN IF selectedPlaceId = NoId \/ hits = {} THEN <<>>
       ELSE <<places[CHOOSE i \in hits : \A j \in hits : i <= j]>>

\* keepOnMap without the selected place's exemption
keepOnMapRadiusOnly(e) == e.distance <= Km(SHOW_RADIUS_KM)

keepOnMap(e) == e.isSelected \/ e.distance <= Km(SHOW_RADIUS_KM)

limitPlaces(placesWithDistance) == slice(placesWithDistance, 0, MAX_PLACES_ON_MAP)

\* the chain places.map(...).filter(...).sort(...) of the zoom >= 13 branch
placesWithDistanceChain(places, referencePoint, selectedPlaceId) ==
    LET mapped == created(chainOf(places),
                     [i \in 1..Len(places) |->
                         [place |-> places[i],
                          distance |-> calculateDistance(referencePoint.lat,
                                           referencePoint.lng, places[i].lat, places[i].lng),
                          isSelected |-> places[i].id = selectedPlaceId]])
        kept   == created(mapped, SelectSeq(mapped.value, keepOnMap))
    IN sortInPlace(kept, [name |-> "selectedFirst"])

\* useFilteredPlaces taking zoom = MIN_ZOOM_FOR_PINS as too low as well
useFilteredPlacesInclusiveZoom(places, mapCenter, zoom, selectedPlaceId) ==
    LET referencePoint == mapCenter
        selectedPlace == findPlace(places, selectedPlaceId)
        placesWithDistance ==
            placesWithDistanceChain(places, referencePoint, selectedPlaceId).value
        limited == limitPlaces(placesWithDistance)
    IN IF zoom <= MIN_ZOOM_FOR_PINS
       THEN [filteredPlaces |-> selectedPlace,
             shouldShowZoomHint |-> (selectedPlace = <<>> \/ Len(places) > 1)]
       ELSE [filteredPlaces |-> [i \in 1..Len(limited) |-> limited[i].place],
             shouldShowZoomHint |-> FALSE]

useFilteredPlaces(places, mapCenter, zoom, selectedPlaceId) ==
    LET referencePoint == mapCenter
        selectedPlace == findPlace(places, selectedPlaceId)
        placesWithDistance ==
            placesWithDistanceChain(places, referencePoint, selectedPlaceId).value
        limited == limitPlaces(placesWithDistance)
    IN IF zoom < MIN_ZOOM_FOR_PINS
       THEN [filteredPlaces |-> selectedPlace,
             shouldShowZoomHint |-> (selectedPlace = <<>> \/ Len(places) > 1)]
       ELSE [filteredPlaces |-> [i \in 1..Len(limited) |-> limited[i].place],
             shouldShowZoomHint |-> FALSE]

(***************************************************************************)
(* Home.filteredPlaces (page.tsx 213-283).  Text (names, districts, the    *)
(* search query, age buckets) is a sequence of one-character strings.      *)
(***************************************************************************)
\* String.prototype.includes
includes(str, sub) ==
    \E i \in 0..(Len(str) - Len(sub)) : SubSeq(str, i + 1, i + Len(sub)) = sub

\* the capital letters of the texts used here, each with its small letter
LowerOf ==
    [c \in {"A", "B", "C", "L", "M", "R", "S", "T", "W", "Y", "Z"} |->
        CASE c = "A" -> "a" [] c = "B" -> "b" [] c = "C" -> "c" [] c = "L" -> "l"
          [] c = "M" -> "m" [] c = "R" -> "r" [] c = "S" -> "s" [] c = "T" -> "t"
          [] c = "W" -> "w" [] c = "Y" -> "y" [] c = "Z" -> "z"]

\* String.prototype.toLowerCase
toLowerCase(str) ==
    [i \in 1..Len(str) |-> IF str[i] \in DOMAIN LowerOf THEN LowerOf[str[i]] ELSE str[i]]

\* categoryLabels[category] || ""
categoryLabels(category) ==
    CASE category = "playhouse" -> <<"#", "C", "a">>
      [] category = "park" -> <<"#", "B", "c">>
      [] category = "museum" -> <<"#", "M">>
      [] category = "restaurant" -> <<"#", "R">>
      [] category = "library" -> <<"#", "L">>
      [] OTHER -> <<>>

\* String.prototype.split("-")
RECURSIVE splitDash(_)
splitDash(str) ==
    LET dashes == {i \in 1..Len(str) : str[i] = "-"}
    IN IF dashes = {} THEN <<str>>
       ELSE LET i == CHOOSE d \in dashes : \A e \in dashes : d <= e
            IN <<SubSeq(str, 1, i - 1)>> \o splitDash(SubSeq(str, i + 1, Len(str)))

\* ageFilter.split("-").map(a => a === "12+" ? 12 : parseInt(a))
ageBounds(ageFilter) ==
    LET parts == splitDash(ageFilter)
    IN [i \in 1..Len(parts) |->
           IF parts[i] = <<"1", "2", "+">> THEN 12 ELSE parseInt(parts[i])]

\* the callback of filters.ages.some: "if (maxAge)" is false for a missing
\* second part and for 0
ageOverlaps(place, ageFilter) ==
    LET bounds == ageBounds(ageFilter)
        minAge == bounds[1]
    IN IF Len(bounds) >= 2 /\ bounds[2] # 0
       THEN ~(place.ageRange[2] < minAge \/ place.ageRange[1] > bounds[2])
       ELSE place.ageRange[1] <= minAge /\ place.ageRange[2] >= minAge

\* priceMatches with every tier an exact match
priceMatchesExact(place, priceFilter) == place.priceType = priceFilter

\* the callback of filters.prices.some
priceMatches(place, priceFilter) ==
    IF priceFilter = "free" THEN place.priceType = "free"
    ELSE IF priceFilter = "low" THEN place.priceType \in {"free", "low"}
    ELSE IF priceFilter = "medium" THEN place.priceType = "medium"
    ELSE IF priceFilter = "high" THEN place.priceType = "high"
    ELSE FALSE

\* the map radius filter: "if (distance > 4) return false"
passesRadius(place, refPoint) ==
    ~(calculateDistanceKm(refPoint.lat, refPoint.lng, place.lat, place.lng) > Km(4))

\* passesSearch comparing case-sensitively
passesSearchExactCase(place, searchQuery) ==
    searchQuery # <<>> =>
        \/ includes(place.name, searchQuery)
        \/ includes(place.district, searchQuery)
        \/ includes(categoryLabels(place.category), searchQuery)

passesSearch(place, searchQuery) ==
    searchQuery # <<>> =>
        LET query == toLowerCase(searchQuery)
        IN \/ includes(toLowerCase(place.name), query)
           \/ includes(toLowerCase(place.district), query)
           \/ includes(toLowerCase(categoryLabels(place.category)), query)

passesFavorites(place, showFavoritesOnly, favorites) ==
    ~(showFavoritesOnly /\ ~\E i \in 1..Len(favorites) : favorites[i] = place.id)

passesRegions(place, regions) ==
    ~(Len(regions) > 0 /\ ~\E i \in 1..Len(regions) : includes(place.district, regions[i]))

\* passesCategories with an empty selection rejecting every place
passesCategoriesStrict(place, categories) ==
    \E i \in 1..Len(categories) : categories[i] = place.category

passesCategories(place, categories) ==
    ~(Len(categories) > 0 /\ ~\E i \in 1..Len(categories) : categories[i] = place.category)

passesIndoor(place, indoor) ==
    IF indoor # "all"
    THEN /\ ~(indoor = "indoor" /\ ~place.indoor)
         /\ ~(indoor = "outdoor" /\ place.indoor)
    ELSE TRUE

passesAges(place, ages) ==
    Len(ages) > 0 => \E i \in 1..Len(ages) : ageOverlaps(place, ages[i])

passesPrices(place, prices) ==
    Len(prices) > 0 => \E i \in 1..Len(prices) : priceMatches(place, prices[i])

\* the callback of places.filter
keepInList(place, filters, searchQuery, showFavoritesOnly, favorites, refPoint) ==
    /\ passesRadius(place, refPoint)
    /\ passesSearch(place, searchQuery)
    /\ passesFavorites(place, showFavoritesOnly, favorites)
    /\ passesRegions(place, filters.regions)
    /\ passesCategories(place, filters.categories)
    /\ passesIndoor(place, filters.indoor)
    /\ passesAges(place, filters.ages)
    /\ passesPrices(place, filters.prices)

\* the chain places.filter(...).sort(...)
filteredPlacesChain(places, filters, searchQuery, showFavoritesOnly, favorites, sortBy, listCenter) ==
    LET refPoint == listCenter
        kept == created(chainOf(places),
                    SelectSeq(places, LAMBDA place :
                        keepInList(place, filters, searchQuery, showFavoritesOnly,
                                   favorites, refPoint)))
    IN sortInPlace(kept, [name |-> "bySortMode", sortBy |-> sortBy, refPoint |-> refPoint])

filteredPlaces(places, filters, searchQuery, showFavoritesOnly, favorites, sortBy, listCenter) ==
    filteredPlacesChain(places, filters, searchQuery, showFavoritesOnly, favorites,
                        sortBy, listCenter).value

(***************************************************************************)
(* The earlier Home.filteredPlaces (part_001 111-167): one value per       *)
(* filter, "all" for none, and the user's location as the reference point  *)
(* of distance mode.                                                       *)
(***************************************************************************)
all == <<"a", "l", "l">>

\* the callback of places.filter
keepInList_part001(place, filters, searchQuery, showFavoritesOnly, favorites) ==
    /\ passesSearch(place, searchQuery)
    /\ passesFavorites(place, showFavoritesOnly, favorites)
    /\ ~(filters.region # all /\ ~includes(place.district, filters.region))
    /\ ~(filters.category # "all" /\ place.category # filters.category)
    /\ passesIndoor(place, filters.indoor)
    /\ filters.age # all =>
           LET bounds == ageBounds(filters.age)
           IN (Len(bounds) >= 2 /\ bounds[2] # 0) =>
                  ~(place.ageRange[2] < bounds[1] \/ place.ageRange[1] > bounds[2])
    /\ filters.price # "all" =>
           /\ ~(filters.price = "free" /\ place.priceType # "free")
           /\ ~(filters.price = "low" /\ place.priceType \notin {"free", "low"})
           /\ ~(filters.price = "medium" /\ place.priceType # "medium")
           /\ ~(filters.price = "high" /\ place.priceType # "high")

\* the chain places.filter(...).sort(...)
filteredPlacesChain_part001(places, filters, searchQuery, showFavoritesOnly, favorites, sortBy, userLocation) ==
    LET kept == created(chainOf(places),
                    SelectSeq(places, LAMBDA place :
                        keepInList_part001(place, filters, searchQuery,
                                           showFavoritesOnly, favorites)))
    IN sortInPlace(kept, [name |-> "bySortMode_part001", sortBy |-> sortBy,
                          userLocation |-> userLocation])

filteredPlaces_part001(places, filters, searchQuery, showFavoritesOnly, favorites, sortBy, userLocation) ==
    filteredPlacesChain_part001(places, filters, searchQuery, showFavoritesOnly,
                                favorites, sortBy, userLocation).value

(***************************************************************************)
(* Inputs of the pure functions.  Points around the default map centre     *)
(* (22.32, 114.17): Centre itself, South and North at the same distance    *)
(* from it (a tie), NearSouth 151 m from South, East just inside 4 km of   *)
(* Centre, and Far about 17 km away.                                       *)
(***************************************************************************)
Centre    == [lat |-> 22320, lng |-> 114170]
South     == [lat |-> 22300, lng |-> 114170]
North     == [lat |-> 22340, lng |-> 114170]
NearSouth == [lat |-> 22301, lng |-> 114171]
East      == [lat |-> 22320, lng |-> 114208]
Far       == [lat |-> 22400, lng |-> 114300]

Points == {Centre, South, North, NearSouth, Far}

PointSeqs == UNION {[1..n -> Points] : n \in 0..MaxLen}

\* MAX_PLACES_ON_MAP + 2 points on the meridian of Centre, all within 3 km of
\* it, then East and Far
CrowdedPoints ==
    [i \in 1..(MAX_PLACES_ON_MAP + 2) |->
        [lat |-> Centre.lat + i - (MAX_PLACES_ON_MAP \div 2), lng |-> Centre.lng]]
    \o <<East, Far>>

GridPointsOf(ps) ==
    [i \in 1..Len(ps) |-> [lat |-> ps[i].lat, lng |-> ps[i].lng, rainfall |-> i]]

CarparksOf(ps) ==
    [i \in 1..Len(ps) |->
        [park_Id |-> i, latitude |-> ps[i].lat, longitude |-> ps[i].lng]]

PlacesOf(ps) ==
    [i \in 1..Len(ps) |-> [id |-> i, lat |-> ps[i].lat, lng |-> ps[i].lng]]

Radii == {0, Km(1), calculateDistance(Centre.lat, Centre.lng, South.lat, South.lng),
          Km(SHOW_RADIUS_KM)}

Zooms == {MIN_ZOOM_FOR_PINS - 1, MIN_ZOOM_FOR_PINS}

(***************************************************************************)
(* The data hooks useRainfallNowcast and useCarparks (rainfall.ts 155-206  *)
(* and 409-462).  Strings are sequences of one-character strings: the      *)
(* empty sequence is the empty string, and also what getItem gives for a   *)
(* missing key (null): both are falsy in "cached && cachedTime && ...".    *)
(***************************************************************************)
Hooks == {"useRainfallNowcast", "useCarparks"}

RAINFALL_TTL_MS == 600000
CARPARKS_TTL_MS == 300000

ttlMs(h) == IF h = "useRainfallNowcast" THEN RAINFALL_TTL_MS ELSE CARPARKS_TTL_MS

\* the fetches one load awaits: one for rainfall, Promise.all of two for carparks
fetchesOf(h) ==
    IF h = "useRainfallNowcast" THEN {"fetchRainfallNowcast"}
    ELSE {"fetchCarparks", "fetchCarparkVacancies"}

\* what the body of an OK response can hold: no record or data
fetchResults(f) ==
    CASE f = "fetchRainfallNowcast" -> {<<>>, GridPointsOf(<<Centre>>)}
      [] f = "fetchCarparks" -> {<<>>, CarparksOf(<<Centre>>)}
      [] f = "fetchCarparkVacancies" -> {<<>>, <<[park_Id |-> 1, vacancy |-> 5]>>}

\* how a request can end: fetch rejects, the status is not OK, reading the
\* body (response.text / response.json) rejects, or the body is read
FetchOutcomes == {"networkError", "notOk", "unreadableBody", "ok"}

\* the try block of a loader: it throws on every outcome but "ok"
loaderTry(f, outcome, body) ==
    IF outcome = "ok" THEN [threw |-> FALSE, value |-> body]
    ELSE [threw |-> TRUE, value |-> <<>>]

\* fetchLoader without the catch: what the try block throws rejects the promise
fetchLoaderUncaught(f, outcome, body) ==
    LET t == loaderTry(f, outcome, body)
    IN [rejected |-> t.threw, value |-> t.value]

\* a loader (fetchRainfallNowcast, fetchCarparks, fetchCarparkVacancies):
\* try { ... } catch { return [] }
fetchLoader(f, outcome, body) ==
    LET t == loaderTry(f, outcome, body)
    IN IF t.threw THEN [rejected |-> FALSE, value |-> <<>>]
       ELSE [rejected |-> FALSE, value |-> t.value]

\* vacancy: undefined
NoVacancy == [park_Id |-> 0, vacancy |-> 0]

\* mergeCarparksWithVacancies leaving out the carparks without a vacancy record
mergeCarparksWithVacanciesKnownOnly(carparksData, vacancies) ==
    LET known == SelectSeq(carparksData, LAMBDA c :
                     \E j \in 1..Len(vacancies) : vacancies[j].park_Id = c.park_Id)
    IN [i \in 1..Len(known) |->
           LET hits == {j \in 1..Len(vacancies) :
                           vacancies[j].park_Id = known[i].park_Id}
           IN [park_Id   |-> known[i].park_Id,
               latitude  |-> known[i].latitude,
               longitude |-> known[i].longitude,
               vacancy   |-> vacancies[CHOOSE j \in hits : \A k \in hits : k <= j]]]

\* mergeCarparksWithVacancies: new Map(...) keeps the last record of an id
mergeCarparksWithVacancies(carparksData, vacancies) ==
    [i \in 1..Len(carparksData) |->
        LET hits == {j \in 1..Len(vacancies) :
                        vacancies[j].park_Id = carparksData[i].park_Id}
        IN [park_Id   |-> carparksData[i].park_Id,
            latitude  |-> carparksData[i].latitude,
            longitude |-> carparksData[i].longitude,
            vacancy   |-> IF hits = {} THEN NoVacancy
                          ELSE vacancies[CHOOSE j \in hits : \A k \in hits : k <= j]]]

\* the arrays a hook can hold, which JSON.parse reads back
payloads(h) ==
    IF h = "useRainfallNowcast" THEN fetchResults("fetchRainfallNowcast")
    ELSE {mergeCarparksWithVacancies(c, v) :
             c \in fetchResults("fetchCarparks"),
             v \in fetchResults("fetchCarparkVacancies")}

\* JSON.stringify of an array: "[", one token per element, "]"
JSONstringify(data) ==
    <<"[">> \o [i \in 1..Len(data) |-> ToString(data[i])] \o <<"]">>

\* JSON.parse of such a text, for hook h
JSONparse(h, text) ==
    CHOOSE data \in payloads(h) : JSONstringify(data) = text

\* Date.prototype.toLocaleTimeString: the time of day, here in seconds
toLocaleTimeString(ms) == toString((ms \div 1000) % 86400)

\* cacheValid with "<=": an entry exactly ttl old still counts as fresh
cacheValidInclusive(cached, cachedTime, now, ttl) ==
    /\ cached # <<>>
    /\ cachedTime # <<>>
    /\ now - parseInt(cachedTime) <= ttl

\* cached && cachedTime && (now - parseInt(cachedTime)) < ttl
cacheValid(cached, cachedTime, now, ttl) ==
    /\ cached # <<>>
    /\ cachedTime # <<>>
    /\ now - parseInt(cachedTime) < ttl

NoResults == [f \in {"fetchRainfallNowcast", "fetchCarparks", "fetchCarparkVacancies"} |-> <<>>]

\* the catch block without setLoading(false)
caughtKeepsLoading(e) ==
    IF e.mounted
    THEN [e EXCEPT !.pc = "done", !.error = <<"F", "a", "i", "l", "e", "d">>]
    ELSE [e EXCEPT !.pc = "done"]

\* the catch block of a load: "if (mounted) { setError; setLoading(false) }"
caught(e) ==
    IF e.mounted
    THEN [e EXCEPT !.pc = "done", !.error = <<"F", "a", "i", "l", "e", "d">>,
                   !.loading = FALSE]
    ELSE [e EXCEPT !.pc = "done"]

\* JSON.parse(text) returns: text is the JSON of an array hook h can hold
parses(h, text) == \E data \in payloads(h) : JSONstringify(data) = text

\* startLoad publishing a fresh cache entry and fetching all the same
startLoadRevalidating(h, store, now) ==
    IF cacheValid(store.cache, store.cache_time, now, ttlMs(h))
    THEN [mounted |-> TRUE, pc |-> "await", hit |-> TRUE, now |-> now,
          pending |-> fetchesOf(h), got |-> NoResults, failed |-> {},
          data |-> JSONparse(h, store.cache),
          lastUpdate |-> IF h = "useRainfallNowcast"
                         THEN toLocaleTimeString(parseInt(store.cache_time))
                         ELSE <<>>,
          loading |-> FALSE, error |-> <<>>]
    ELSE [mounted |-> TRUE, pc |-> "await", hit |-> FALSE, now |-> now,
          pending |-> fetchesOf(h), got |-> NoResults, failed |-> {},
          data |-> <<>>, lastUpdate |-> <<>>, loading |-> TRUE, error |-> <<>>]

\* the effect run of a mount at time now: useState's initial values, the cache
\* check and, on a hit, the cached payload published; when JSON.parse throws
\* on the cached text, the catch block runs
startLoad(h, store, now) ==
    IF cacheValid(store.cache, store.cache_time, now, ttlMs(h))
    THEN IF parses(h, store.cache)
         THEN [mounted |-> TRUE, pc |-> "done", hit |-> TRUE, now |-> now,
               pending |-> {}, got |-> NoResults, failed |-> {},
               data |-> JSONparse(h, store.cache),
               lastUpdate |-> IF h = "useRainfallNowcast"
                              THEN toLocaleTimeString(parseInt(store.cache_time))
                              ELSE <<>>,
               loading |-> FALSE, error |-> <<>>]
         ELSE caught([mounted |-> TRUE, pc |-> "await", hit |-> TRUE, now |-> now,
                      pending |-> {}, got |-> NoResults, failed |-> {},
                      data |-> <<>>, lastUpdate |-> <<>>, loading |-> TRUE,
                      error |-> <<>>])
    ELSE [mounted |-> TRUE, pc |-> "await", hit |-> FALSE, now |-> now,
          pending |-> fetchesOf(h), got |-> NoResults, failed |-> {},
          data |-> <<>>, lastUpdate |-> <<>>, loading |-> TRUE, error |-> <<>>]

\* the array the load holds once its fetches have resolved
loaded(h, got) ==
    IF h = "useRainfallNowcast" THEN got["fetchRainfallNowcast"]
    ELSE mergeCarparksWithVacancies(got["fetchCarparks"], got["fetchCarparkVacancies"])

\* localStorage.setItem on the two keys of one hook
setItem(store, key, value) == [store EXCEPT ![key] = value]

\* commit writing the payload but not the timestamp
commitPayloadOnly(h, e, store, now) ==
    IF e.mounted
    THEN [effect |-> [e EXCEPT !.pc = "done",
                               !.data = loaded(h, e.got),
                               !.lastUpdate = IF h = "useRainfallNowcast"
                                              THEN toLocaleTimeString(now) ELSE <<>>,
                               !.loading = FALSE],
          store  |-> setItem(store, "cache", JSONstringify(loaded(h, e.got)))]
    ELSE [effect |-> [e EXCEPT !.pc = "done"], store |-> store]

\* commit without the "if (mounted)" guard
commitUnguarded(h, e, store, now) ==
    [effect |-> [e EXCEPT !.pc = "done",
                          !.data = loaded(h, e.got),
                          !.lastUpdate = IF h = "useRainfallNowcast"
                                         THEN toLocaleTimeString(now) ELSE <<>>,
                          !.loading = FALSE],
     store  |-> setItem(setItem(store, "cache", JSONstringify(loaded(h, e.got))),
                         "cache_time", toString(e.now))]

\* commit keeping the result of a load with a failed fetch out of the cache
commitUnlessFailed(h, e, store, now) ==
    IF e.mounted
    THEN [effect |-> [e EXCEPT !.pc = "done",
                               !.data = loaded(h, e.got),
                               !.lastUpdate = IF h = "useRainfallNowcast"
                                              THEN toLocaleTimeString(now) ELSE <<>>,
                               !.loading = FALSE],
          store  |-> IF e.failed # {} THEN store
                     ELSE setItem(setItem(store, "cache", JSONstringify(loaded(h, e.got))),
                                  "cache_time", toString(e.now))]
    ELSE [effect |-> [e EXCEPT !.pc = "done"], store |-> store]

\* the code after the await: "if (mounted) { set state; write the cache }";
\* e is the effect run with all its results in, store its hook's cache keys
commit(h, e, store, now) ==
    IF e.mounted
    THEN [effect |-> [e EXCEPT !.pc = "done",
                               !.data = loaded(h, e.got),
                               !.lastUpdate = IF h = "useRainfallNowcast"
                                              THEN toLocaleTimeString(now) ELSE <<>>,
                               !.loading = FALSE],
          store  |-> setItem(setItem(store, "cache", JSONstringify(loaded(h, e.got))),
                              "cache_time", toString(e.now))]
    ELSE [effect |-> [e EXCEPT !.pc = "done"], store |-> store]

(***************************************************************************)
(* The home page (page.tsx) and its map (MapInner.tsx).  userLocation and  *)
(* locateAction are sequences of 0 or 1 value (null is the empty           *)
(* sequence).  Two fields of the map are bookkeeping, not program state:   *)
(* mounts counts the times the map component has mounted, and applied      *)
(* counts the map.setView calls made for the locate action Home holds.     *)
(***************************************************************************)
\* the useState initial values (page.tsx 59-89)
initialHome ==
    [showMap |-> TRUE, mapCenter |-> Centre, listCenter |-> Centre,
     hasMapMoved |-> FALSE, favorites |-> <<>>, showFavoritesOnly |-> FALSE,
     userLocation |-> <<>>, locateAction |-> <<>>]

\* no map component: the Map chunk is not loaded yet, or the map is hidden
noMap(mounts, applied) ==
    [mounted |-> FALSE, center |-> Centre, zoom |-> INITIAL_ZOOM,
     lastLocateTriggerRef |-> 0, mounts |-> mounts, applied |-> applied]

PageInit ==
    /\ home = initialHome
    /\ leaflet = noMap(0, 0)
    /\ parentMapFavorites = <<>>

HookInit ==
    /\ clock = 0
    /\ ticks = 0
    /\ storage = [h \in Hooks |-> [cache |-> <<>>, cache_time |-> <<>>]]
    /\ effects = [h \in Hooks |-> <<>>]

PureInit ==
    /\ call = "none"
    /\ args = <<>>
    /\ ret = <<>>
    /\ after = <<>>

(***************************************************************************)
(* RainfallNowcast's memo (RainfallNowcast.tsx 19-21).                     *)
(***************************************************************************)
RenderRainfallNowcast ==
    /\ call = "none"
    /\ \E ps \in PointSeqs, q \in Points :
           /\ call' = "getRainfallAtLocation"
           /\ args' = [gridPoints |-> GridPointsOf(ps), lat |-> q.lat, lng |-> q.lng]
           /\ ret' = getRainfallAtLocation(GridPointsOf(ps), q.lat, q.lng)
           /\ after' = GridPointsOf(ps)
           /\ UNCHANGED <<hookVars, pageVars>>

CallGetNearbyCarparks ==
    /\ call = "none"
    /\ \E ps \in PointSeqs, c \in {Centre, South}, r \in Radii :
           /\ call' = "getNearbyCarparks"
           /\ args' = [carparks |-> CarparksOf(ps), centerLat |-> c.lat,
                       centerLng |-> c.lng, radiusKm |-> r]
           /\ ret' = getNearbyCarparks(CarparksOf(ps), c.lat, c.lng, r)
           /\ after' = getNearbyCarparksChain(CarparksOf(ps), c.lat, c.lng, r).input
           /\ UNCHANGED <<hookVars, pageVars>>

RenderCarparkList ==
    /\ call = "none"
    /\ \E ps \in PointSeqs, c \in {Centre, South}, r \in Radii, n \in 0..MaxResultsBound :
           /\ call' = "CarparkList"
           /\ args' = [carparks |-> CarparksOf(ps), placeLat |-> c.lat,
                       placeLng |-> c.lng, radiusKm |-> r, maxResults |-> n]
           /\ ret' = nearbyCarparks(CarparksOf(ps), c.lat, c.lng, r, n)
           /\ after' = getNearbyCarparksChain(CarparksOf(ps), c.lat, c.lng, r).input
           /\ UNCHANGED <<hookVars, pageVars>>

RenderMapRef ==
    /\ call = "none"
    /\ \E ps \in PointSeqs \cup {CrowdedPoints}, c \in {Centre, South}, z \in Zooms :
           \E sel \in {NoId, 1, Len(ps), Len(ps) + 1} :
               /\ call' = "useFilteredPlaces"
               /\ args' = [places |-> PlacesOf(ps), mapCenter |-> c, zoom |-> z,
                           selectedPlaceId |-> sel]
               /\ ret' = useFilteredPlaces(PlacesOf(ps), c, z, sel)
               /\ after' = IF z < MIN_ZOOM_FOR_PINS THEN PlacesOf(ps)
                           ELSE placesWithDistanceChain(PlacesOf(ps), c, sel).input
               /\ UNCHANGED <<hookVars, pageVars>>

GeoNext ==
    \/ RenderRainfallNowcast
    \/ CallGetNearbyCarparks
    \/ RenderCarparkList
    \/ RenderMapRef

GeoInit == PureInit /\ HookInit /\ PageInit

(***************************************************************************)
(* The home page's list (page.tsx 213-283) over a dataset of six places:    *)
(* four within 4 km of the default centre and two about 17 km away.        *)
(***************************************************************************)
Dataset ==
    <<[id |-> 1, name |-> <<"A", "b">>, district |-> <<"S", "T">>,
       lat |-> East.lat, lng |-> East.lng, category |-> "park",
       indoor |-> FALSE, ageRange |-> <<0, 2>>, priceType |-> "free"],
      [id |-> 2, name |-> <<"B", "a">>, district |-> <<"W", "C">>,
       lat |-> South.lat, lng |-> South.lng, category |-> "playhouse",
       indoor |-> TRUE, ageRange |-> <<2, 4>>, priceType |-> "medium"],
      [id |-> 3, name |-> <<"c", "a", "b">>, district |-> <<"S", "T", "x">>,
       lat |-> North.lat, lng |-> North.lng, category |-> "museum",
       indoor |-> TRUE, ageRange |-> <<7, 10>>, priceType |-> "low"],
      [id |-> 4, name |-> <<"Z">>, district |-> <<"S", "T">>,
       lat |-> Far.lat, lng |-> Far.lng, category |-> "zoo",
       indoor |-> FALSE, ageRange |-> <<3, 12>>, priceType |-> "high"],
      [id |-> 5, name |-> <<"R">>, district |-> <<"W", "C">>,
       lat |-> Centre.lat, lng |-> Centre.lng, category |-> "restaurant",
       indoor |-> TRUE, ageRange |-> <<0, 12>>, priceType |-> "low"],
      [id |-> 6, name |-> <<"T">>, district |-> <<"Y", "L">>,
       lat |-> Far.lat, lng |-> Far.lng, category |-> "library",
       indoor |-> TRUE, ageRange |-> <<13, 16>>, priceType |-> "free"]>>

Age00  == <<"0", "-", "0">>
Age01  == <<"0", "-", "1">>
Age36  == <<"3", "-", "6">>
Age612 == <<"6", "-", "1", "2">>
Age12p == <<"1", "2", "+">>

FilterChoices ==
    [regions    : {<<>>, <<<<"S", "T">>>>, <<<<"W", "C">>, <<"Y", "L">>>>},
     categories : {<<>>, <<"park">>, <<"museum", "zoo">>},
     ages       : {<<>>, <<Age01, Age36>>, <<Age612>>, <<Age12p>>, <<Age00>>},
     prices     : {<<>>, <<"low">>, <<"free", "high">>, <<"medium">>},
     indoor     : {"all", "indoor", "outdoor"}]

Queries == {<<>>, <<"a", "B">>, <<"s", "t">>, <<"#", "c">>}

FavoriteChoices == {<<>>, <<4, 1>>}

SortModes == {"default", "distance", "priceLow", "priceHigh"}

ListCenters == {Centre, Far}

RenderHome ==
    /\ call = "none"
    /\ \E filters \in FilterChoices, searchQuery \in Queries,
          showFavoritesOnly \in BOOLEAN, favorites \in FavoriteChoices,
          sortBy \in SortModes, listCenter \in ListCenters :
           /\ call' = "filteredPlaces"
           /\ args' = [places |-> Dataset, filters |-> filters,
                       searchQuery |-> searchQuery,
                       showFavoritesOnly |-> showFavoritesOnly,
                       favorites |-> favorites, sortBy |-> sortBy,
                       listCenter |-> listCenter]
           /\ LET chain == filteredPlacesChain(Dataset, filters, searchQuery,
                                showFavoritesOnly, favorites, sortBy, listCenter)
              IN ret' = chain.value /\ after' = chain.input
           /\ UNCHANGED <<hookVars, pageVars>>

HomeNext == RenderHome

HomeInit == PureInit /\ HookInit /\ PageInit

SpecHome == HomeInit /\ [][HomeNext]_vars

(***************************************************************************)
(* The earlier home page's list (part_001 111-167) over the same dataset.  *)
(***************************************************************************)
FilterChoices_part001 ==
    [region   : {all, <<"S", "T">>},
     category : {"all", "park"},
     age      : {all, Age36, Age12p},
     price    : {"all", "low", "free"},
     indoor   : {"all", "indoor", "outdoor"}]

SortModes_part001 == {"default", "distance", "price"}

\* userLocation: null until the geolocation callback sets it
UserLocations == {<<>>, <<Centre>>, <<Far>>}

RenderHome_part001 ==
    /\ call = "none"
    /\ \E filters \in FilterChoices_part001, searchQuery \in {<<>>, <<"a", "B">>},
          showFavoritesOnly \in BOOLEAN, favorites \in FavoriteChoices,
          sortBy \in SortModes_part001, userLocation \in UserLocations :
           /\ call' = "filteredPlaces_part001"
           /\ args' = [places |-> Dataset, filters |-> filters,
                       searchQuery |-> searchQuery,
                       showFavoritesOnly |-> showFavoritesOnly,
                       favorites |-> favorites, sortBy |-> sortBy,
                       userLocation |-> userLocation]
           /\ LET chain == filteredPlacesChain_part001(Dataset, filters, searchQuery,
                                showFavoritesOnly, favorites, sortBy, userLocation)
              IN ret' = chain.value /\ after' = chain.input
           /\ UNCHANGED <<hookVars, pageVars>>

Next_part001 == RenderHome_part001

Init_part001 == PureInit /\ HookInit /\ PageInit

Spec_part001 == Init_part001 /\ [][Next_part001]_vars

SpecGeo == GeoInit /\ [][GeoNext]_vars

(***************************************************************************)
(* The rainfall pipeline on data at the edge of the coordinate ranges: a   *)
(* CSV with rows beyond 90 degrees of latitude or 180 degrees of           *)
(* longitude, and lookups from a location 0.05 degrees short of the        *)
(* 180th meridian.                                                         *)
(***************************************************************************)
EdgeQuery  == [lat |-> 22320, lng |-> 179950]
EdgeInside == [lat |-> 22320, lng |-> 179800]
EdgeNear   == [lat |-> 22320, lng |-> 179900]
EdgeBeyond == [lat |-> 22320, lng |-> 180050]

EdgePointSeqs == UNION {[1..n -> {EdgeInside, EdgeNear, EdgeBeyond}] : n \in 0..MaxLen}

HeaderLine == <<"h", ",", "h", ",", "h", ",", "h", ",", "h">>

CsvLines ==
    {<<"1", ",", "2", ",", "2", "2", "3", "2", "0", ",",
       "1", "7", "9", "8", "0", "0", ",", "3">>,
     <<"1", ",", "2", ",", "2", "2", "3", "2", "0", ",",
       "1", "8", "0", "0", "5", "0", ",", "4">>,
     <<" ", "1", ",", "2", ",", "9", "0", "0", "5", "0", ",",
       "1", "1", "4", "1", "7", "0", ",", "5", " ">>,
     <<"1", ",", "2", ",", "3">>,
     <<" ">>}

\* the header line followed by the given lines
CsvTextOf(lines) ==
    IF Len(lines) = 0 THEN HeaderLine
    ELSE IF Len(lines) = 1 THEN HeaderLine \o <<"\n">> \o lines[1]
    ELSE HeaderLine \o <<"\n">> \o lines[1] \o <<"\n">> \o lines[2] \o <<"\n">>

CsvTexts == {CsvTextOf(ls) : ls \in UNION {[1..n -> CsvLines] : n \in 0..2}}

\* fetchRainfallNowcast's "return parseRainfallCSV(csvText)"
CallParseRainfallCSV ==
    /\ call = "none"
    /\ \E csvText \in CsvTexts :
           /\ call' = "parseRainfallCSV"
           /\ args' = [csvText |-> csvText]
           /\ ret' = parseRainfallCSV(csvText)
           /\ after' = csvText
           /\ UNCHANGED <<hookVars, pageVars>>

RenderRainfallNowcastAtEdge ==
    /\ call = "none"
    /\ \E ps \in EdgePointSeqs :
           /\ call' = "getRainfallAtLocation"
           /\ args' = [gridPoints |-> GridPointsOf(ps), lat |-> EdgeQuery.lat,
                       lng |-> EdgeQuery.lng]
           /\ ret' = getRainfallAtLocation(GridPointsOf(ps), EdgeQuery.lat, EdgeQuery.lng)
           /\ after' = GridPointsOf(ps)
           /\ UNCHANGED <<hookVars, pageVars>>

CallGetNearbyCarparksAtEdge ==
    /\ call = "none"
    /\ \E ps \in EdgePointSeqs, r \in {Km(6), Km(12)} :
           /\ call' = "getNearbyCarparks"
           /\ args' = [carparks |-> CarparksOf(ps), centerLat |-> EdgeQuery.lat,
                       centerLng |-> EdgeQuery.lng, radiusKm |-> r]
           /\ ret' = getNearbyCarparks(CarparksOf(ps), EdgeQuery.lat, EdgeQuery.lng, r)
           /\ after' = getNearbyCarparksChain(CarparksOf(ps), EdgeQuery.lat,
                                              EdgeQuery.lng, r).input
           /\ UNCHANGED <<hookVars, pageVars>>

EdgeNext ==
    \/ CallParseRainfallCSV
    \/ RenderRainfallNowcastAtEdge
    \/ CallGetNearbyCarparksAtEdge

EdgeInit == PureInit /\ HookInit /\ PageInit

SpecEdge == EdgeInit /\ [][EdgeNext]_vars

(***************************************************************************)
(* The three functions that filter and sort an array they are handed: the  *)
(* radius filter, the map's place culling and the home page's list.        *)
(***************************************************************************)
FrameNext ==
    \/ CallGetNearbyCarparks
    \/ RenderMapRef
    \/ RenderHome

FrameInit == PureInit /\ HookInit /\ PageInit

SpecFrame == FrameInit /\ [][FrameNext]_vars

(***************************************************************************)
(* The hooks' steps.  A component using hook h mounts (its effect runs     *)
(* loadRainfall / loadCarparks up to the await), unmounts (the cleanup     *)
(* sets mounted = false), one of its fetches settles, or time passes.      *)
(* The two hooks share no localStorage key and no state, so a behaviour    *)
(* follows the component of one hook: the other hook's is not mounted.     *)
(***************************************************************************)
mountedRuns(h) == {k \in 1..Len(effects[h]) : effects[h][k].mounted}

Mount(h) ==
    /\ Len(effects[h]) < MaxMounts
    /\ mountedRuns(h) = {}
    /\ \A g \in Hooks \ {h} : effects[g] = <<>>
    /\ effects' = [effects EXCEPT ![h] = Append(@, startLoad(h, storage[h], clock))]
    /\ UNCHANGED <<clock, ticks, storage, pureVars, pageVars>>

Unmount(h) ==
    /\ \E k \in mountedRuns(h) :
           effects' = [effects EXCEPT ![h][k].mounted = FALSE]
    /\ UNCHANGED <<clock, ticks, storage, pureVars, pageVars>>

Settle(h, k, f, outcome, body) ==
    /\ effects[h][k].pc = "await"
    /\ f \in effects[h][k].pending
    /\ LET result == fetchLoader(f, outcome, body)
           e == [effects[h][k] EXCEPT
                    !.pending = @ \ {f},
                    !.got[f] = result.value,
                    !.failed = IF outcome = "ok" THEN @ ELSE @ \cup {f}]
       IN IF result.rejected
          THEN /\ effects' = [effects EXCEPT ![h][k] = caught(effects[h][k])]
               /\ UNCHANGED storage
          ELSE IF e.pending = {}
          THEN LET done == commit(h, e, storage[h], clock)
               IN /\ effects' = [effects EXCEPT ![h][k] = done.effect]
                  /\ storage' = [storage EXCEPT ![h] = done.store]
          ELSE /\ effects' = [effects EXCEPT ![h][k] = e]
               /\ UNCHANGED storage
    /\ UNCHANGED <<clock, ticks, pureVars, pageVars>>

\* the body a request with the given outcome delivers: only an OK response
\* has one.  An OK response without records leaves a hook's data, loading,
\* error and cache where a failed request leaves them, so the OK bodies drawn
\* are those with records.
responseBodies(f, outcome) ==
    IF outcome = "ok" THEN fetchResults(f) \ {<<>>} ELSE {<<>>}

\* the time steps that tell the loads of the mounted hook apart: 1 ms and
\* 1 ms less than its ttl
Deltas ==
    {1} \cup {ttlMs(h) - 1 : h \in {g \in Hooks : effects[g] # <<>>}}

Tick ==
    /\ ticks < MaxTicks
    /\ \E d \in Deltas : clock' = clock + d
    /\ ticks' = ticks + 1
    /\ UNCHANGED <<storage, effects, pureVars, pageVars>>

HookNext ==
    \/ \E h \in Hooks : Mount(h)
    \/ \E h \in Hooks : Unmount(h)
    \/ \E h \in Hooks : \E k \in 1..Len(effects[h]) :
           \E f \in fetchesOf(h) : \E outcome \in FetchOutcomes :
               \E body \in responseBodies(f, outcome) : Settle(h, k, f, outcome, body)
    \/ Tick

HooksInit == PureInit /\ HookInit /\ PageInit

SpecHook == HooksInit /\ [][HookNext]_vars

(***************************************************************************)
(* Properties of the nearest-match lookup.                                 *)
(***************************************************************************)
\* the threshold of the specification's nearest(R, q, maxDist): 1 km
maxDistanceKm == Km(1)

gridDistance(i) ==
    calculateDistance(args.lat, args.lng, args.gridPoints[i].lat, args.gridPoints[i].lng)

\* C1: getRainfallAtLocation returns none if and only if every grid record is
\* farther from the query than the maximum-distance threshold.
C1_NoneIffAllBeyondThreshold ==
    call = "getRainfallAtLocation" =>
        ((ret = null) <=>
            \A i \in 1..Len(args.gridPoints) : gridDistance(i) > maxDistanceKm)

\* C8: a returned record has the minimum distance over all input records, and
\* among the records at that minimum it is the first in input order.
C8_NearestIsFirstMinimum ==
    (call = "getRainfallAtLocation" /\ ret # null) =>
        \E i \in 1..Len(args.gridPoints) :
            /\ ret = args.gridPoints[i]
            /\ \A j \in 1..Len(args.gridPoints) : gridDistance(i) <= gridDistance(j)
            /\ \A j \in 1..(i - 1) : gridDistance(j) > gridDistance(i)

\* C8 witness: two different records tie for the minimum and the earlier one,
\* which is not the first record of the input, is returned.
C8_TieWitness ==
    /\ call = "getRainfallAtLocation"
    /\ \E i, j \in 1..Len(args.gridPoints) :
           /\ 1 < i /\ i < j
           /\ gridDistance(i) = gridDistance(j)
           /\ gridDistance(i) < gridDistance(1)
           /\ args.gridPoints[i].lat # args.gridPoints[j].lat
           /\ ret = args.gridPoints[i]

(***************************************************************************)
(* Properties of the radius filter.                                        *)
(***************************************************************************)
carparkDistance(i) ==
    calculateDistance(args.centerLat, args.centerLng,
                      args.carparks[i].latitude, args.carparks[i].longitude)

\* C4: getNearbyCarparks returns exactly the records within the radius: each
\* returned record is an input record at distance <= r, carrying that distance,
\* and every input record at distance <= r is returned once.
C4_ExactlyWithinRadius ==
    call = "getNearbyCarparks" =>
        LET within == {i \in 1..Len(args.carparks) : carparkDistance(i) <= args.radiusKm}
        IN /\ Len(ret) = Cardinality(within)
           /\ {ret[k].park_Id : k \in 1..Len(ret)} = within
           /\ \A k \in 1..Len(ret) :
                  /\ ret[k].latitude = args.carparks[ret[k].park_Id].latitude
                  /\ ret[k].longitude = args.carparks[ret[k].park_Id].longitude
                  /\ ret[k].distance = carparkDistance(ret[k].park_Id)
                  /\ ret[k].distance <= args.radiusKm

\* C4 witness: a record at distance exactly r > 0 is returned while another
\* record of the input is left out.
C4_BoundaryWitness ==
    /\ call = "getNearbyCarparks"
    /\ args.radiusKm > 0
    /\ \E k \in 1..Len(ret) : ret[k].distance = args.radiusKm
    /\ Len(ret) < Len(args.carparks)

\* C5: the output of getNearbyCarparks is in ascending order of the distance
\* of its records from the centre.
C5_SortedAscending ==
    call = "getNearbyCarparks" =>
        \A k \in 1..(Len(ret) - 1) :
            carparkDistance(ret[k].park_Id) <= carparkDistance(ret[k + 1].park_Id)

\* C5 witness: the output holds three records at two or more distances, of
\* which the nearest came last in the input.
C5_ReorderedWitness ==
    /\ call = "getNearbyCarparks"
    /\ Len(ret) = 3
    /\ ret[1].distance < ret[3].distance
    /\ ret[1].park_Id = 3

(***************************************************************************)
(* Properties of the result limit and of the map's place culling.          *)
(***************************************************************************)
listDistance(i) ==
    calculateDistance(args.placeLat, args.placeLng,
                      args.carparks[i].latitude, args.carparks[i].longitude)

\* input record i comes before input record j in the carpark list's order
listBefore(i, j) ==
    \/ listDistance(i) < listDistance(j)
    \/ listDistance(i) = listDistance(j) /\ i < j

placeDistance(i) ==
    calculateDistance(args.mapCenter.lat, args.mapCenter.lng,
                      args.places[i].lat, args.places[i].lng)

placeSelected(i) == args.places[i].id = args.selectedPlaceId

\* input place i comes before input place j in the map's order
placeBefore(i, j) ==
    \/ placeSelected(i) /\ ~placeSelected(j)
    \/ /\ placeSelected(i) = placeSelected(j)
       /\ \/ placeDistance(i) < placeDistance(j)
          \/ placeDistance(i) = placeDistance(j) /\ i < j

\* C6: with a result limit n and m matches, the output is the first min(n, m)
\* entries of the sorted matches: it has min(n, m) entries, all of them matches,
\* in order, and no omitted match sorts before an included one.  It holds of the
\* carpark list (maxResults) and of the map (cap of 50 places).
C6_LimitTakesFirstEntries ==
    /\ call = "CarparkList" =>
           LET matches == {i \in 1..Len(args.carparks) : listDistance(i) <= args.radiusKm}
               shown   == {ret[k].park_Id : k \in 1..Len(ret)}
           IN /\ Len(ret) = Min(args.maxResults, Cardinality(matches))
              /\ Cardinality(shown) = Len(ret)
              /\ shown \subseteq matches
              /\ \A k \in 1..(Len(ret) - 1) : listBefore(ret[k].park_Id, ret[k + 1].park_Id)
              /\ \A o \in matches \ shown : \A x \in shown : listBefore(x, o)
    /\ (call = "useFilteredPlaces" /\ args.zoom >= MIN_ZOOM_FOR_PINS) =>
           LET out     == ret.filteredPlaces
               matches == {i \in 1..Len(args.places) :
                              placeSelected(i) \/ placeDistance(i) <= Km(SHOW_RADIUS_KM)}
               shown   == {out[k].id : k \in 1..Len(out)}
           IN /\ Len(out) = Min(MAX_PLACES_ON_MAP, Cardinality(matches))
              /\ Cardinality(shown) = Len(out)
              /\ shown \subseteq matches
              /\ \A k \in 1..(Len(out) - 1) : placeBefore(out[k].id, out[k + 1].id)
              /\ \A o \in matches \ shown : \A x \in shown : placeBefore(x, o)

\* C6 witness: the map holds more than 50 matches and shows 50 of them.
C6_CapWitness ==
    /\ call = "useFilteredPlaces"
    /\ args.zoom >= MIN_ZOOM_FOR_PINS
    /\ Cardinality({i \in 1..Len(args.places) :
           placeSelected(i) \/ placeDistance(i) <= Km(SHOW_RADIUS_KM)}) > MAX_PLACES_ON_MAP
    /\ Len(ret.filteredPlaces) = MAX_PLACES_ON_MAP

\* C7: at zoom >= 13, a selected place of the input is the first element of
\* the output, whatever its distance from the map centre.
C7_SelectedPlaceFirst ==
    (call = "useFilteredPlaces" /\ args.zoom >= MIN_ZOOM_FOR_PINS) =>
        \A i \in 1..Len(args.places) :
            placeSelected(i) =>
                /\ Len(ret.filteredPlaces) >= 1
                /\ ret.filteredPlaces[1] = args.places[i]

\* C7 witness: the selected place is beyond 4 km, more than 50 other places
\* are within 4 km, and the selected place leads the 50 places shown.
C7_FarSelectedWitness ==
    /\ call = "useFilteredPlaces"
    /\ args.zoom >= MIN_ZOOM_FOR_PINS
    /\ Len(ret.filteredPlaces) = MAX_PLACES_ON_MAP
    /\ \E i \in 1..Len(args.places) :
           /\ placeSelected(i)
           /\ placeDistance(i) > Km(SHOW_RADIUS_KM)
           /\ ret.filteredPlaces[1] = args.places[i]
           /\ Cardinality({j \in 1..Len(args.places) :
                  placeDistance(j) <= Km(SHOW_RADIUS_KM)}) > MAX_PLACES_ON_MAP

(***************************************************************************)
(* Properties of the data hooks.                                           *)
(***************************************************************************)
\* the effect run a Mount step of hook h has just added
newRun(h) == effects'[h][Len(effects'[h])]

\* C2: a load started at time now uses the cached payload if and only if both
\* cache keys are set and now - fetchedAt < ttl (600000 ms for rainfall, 300000
\* ms for carparks); fetchedAt, the stored time, is the start time of the load
\* that wrote the entry.
C2_HitIffFresh ==
    [][\A h \in Hooks :
          Len(effects'[h]) = Len(effects[h]) + 1 =>
              LET entry == /\ storage[h].cache # <<>>
                           /\ storage[h].cache_time # <<>>
                  fresh == \E k \in 1..Len(effects[h]) :
                               /\ ~effects[h][k].hit
                               /\ effects[h][k].pc = "done"
                               /\ storage[h].cache_time = toString(effects[h][k].now)
                               /\ clock - effects[h][k].now
                                      < (IF h = "useRainfallNowcast" THEN 600000 ELSE 300000)
              IN /\ newRun(h).hit <=> (entry /\ fresh)
                 /\ newRun(h).hit =>
                        /\ JSONstringify(newRun(h).data) = storage[h].cache
                        /\ ~newRun(h).loading
                        /\ newRun(h).pending = {}
                 /\ ~newRun(h).hit => newRun(h).pending # {}]_vars

\* C2 witness: a load that started ttl - 1 ms after the load that wrote the
\* entry was a hit on a payload that is not empty.
C2_HitAtLastMsWitness ==
    \E h \in Hooks : \E i, j \in 1..Len(effects[h]) :
        /\ ~effects[h][i].hit
        /\ effects[h][j].hit
        /\ effects[h][j].now = effects[h][i].now + ttlMs(h) - 1
        /\ effects[h][j].data # <<>>
        /\ storage[h].cache_time = toString(effects[h][i].now)

\* C3: when the last fetch of a run whose component has unmounted settles,
\* neither the hook state of that run nor localStorage changes.
C3_UnmountedResultDiscarded ==
    [][\A h \in Hooks : \A k \in 1..Len(effects[h]) :
          (/\ effects[h][k].pc = "await"
           /\ ~effects[h][k].mounted
           /\ effects'[h][k].pc = "done") =>
              /\ storage' = storage
              /\ effects'[h][k].data = effects[h][k].data
              /\ effects'[h][k].loading = effects[h][k].loading
              /\ effects'[h][k].error = effects[h][k].error
              /\ effects'[h][k].lastUpdate = effects[h][k].lastUpdate]_vars

\* C3 witness: a run was unmounted, its fetches then resolved with data, and it
\* still shows the initial state while localStorage is empty.
C3_DiscardedWitness ==
    \E h \in Hooks : \E k \in 1..Len(effects[h]) :
        /\ ~effects[h][k].mounted
        /\ effects[h][k].pc = "done"
        /\ ~effects[h][k].hit
        /\ loaded(h, effects[h][k].got) # <<>>
        /\ effects[h][k].loading
        /\ effects[h][k].data = <<>>
        /\ storage[h].cache = <<>>

\* the loads of hook h that are awaiting their fetch
outstanding(h) == {k \in 1..Len(effects[h]) : effects[h][k].pc = "await"}

\* C9: at every moment at most one fetch is outstanding per dataset.
C9_OneOutstandingFetch ==
    \A h \in Hooks : Cardinality(outstanding(h)) <= 1

(***************************************************************************)
(* The home page's list.  The groups are restated over the sets of         *)
(* accepted values, a group without accepted values accepting every place. *)
(***************************************************************************)
Range(seq) == {seq[i] : i \in 1..Len(seq)}

inList(place) == \E k \in 1..Len(ret) : ret[k].id = place.id

searchAccepts(place, searchQuery) ==
    \/ searchQuery = <<>>
    \/ \E text \in {place.name, place.district, categoryLabels(place.category)} :
          includes(toLowerCase(text), toLowerCase(searchQuery))

groupsAccept(place, a) ==
    /\ searchAccepts(place, a.searchQuery)
    /\ a.showFavoritesOnly => place.id \in Range(a.favorites)
    /\ a.filters.regions = <<>>
         \/ \E r \in Range(a.filters.regions) : includes(place.district, r)
    /\ a.filters.categories = <<>> \/ place.category \in Range(a.filters.categories)
    /\ a.filters.indoor = "indoor" => place.indoor
    /\ a.filters.indoor = "outdoor" => ~place.indoor
    /\ a.filters.ages = <<>>
         \/ \E ageFilter \in Range(a.filters.ages) : ageOverlaps(place, ageFilter)
    /\ a.filters.prices = <<>>
         \/ \E priceFilter \in Range(a.filters.prices) : priceMatches(place, priceFilter)

nothingSelected(a) ==
    /\ a.searchQuery = <<>>
    /\ ~a.showFavoritesOnly
    /\ a.filters.regions = <<>>
    /\ a.filters.categories = <<>>
    /\ a.filters.indoor = "all"
    /\ a.filters.ages = <<>>
    /\ a.filters.prices = <<>>

\* the distance of each place of the dataset from each list centre, in metres
ListDistances ==
    [c \in ListCenters |->
        [i \in 1..Len(Dataset) |->
            calculateDistance(c.lat, c.lng, Dataset[i].lat, Dataset[i].lng)]]

\* the distance of a place of the dataset (place.id is its position) from
\* the list centre of the call
distanceFromRef(place) == ListDistances[args.listCenter][place.id]

nearListCenter(place, a) == ListDistances[a.listCenter][place.id] <= Km(4)

\* C10 as stated: a place is in the filtered list iff it passes every predicate
\* group, and with nothing selected every place of the dataset is in the list.
C10_IncludedIffPassesEveryGroup ==
    call = "filteredPlaces" =>
        /\ \A place \in Range(args.places) : inList(place) <=> groupsAccept(place, args)
        /\ nothingSelected(args) => \A place \in Range(args.places) : inList(place)

\* C10 amended: a place is in the filtered list iff it lies within 4 km of
\* listCenter and passes every predicate group; with nothing selected exactly
\* the places within 4 km of listCenter are in the list.
C10_IncludedIffNearAndPassesEveryGroup ==
    call = "filteredPlaces" =>
        /\ \A place \in Range(args.places) :
              inList(place) <=> (nearListCenter(place, args) /\ groupsAccept(place, args))
        /\ nothingSelected(args) =>
              \A place \in Range(args.places) : inList(place) <=> nearListCenter(place, args)
        /\ \A k \in 1..Len(ret) : ret[k] \in Range(args.places)

\* nothing is selected, the four places around the centre are listed and the
\* place 17 km away is not
C10_NothingSelectedWitness ==
    /\ call = "filteredPlaces"
    /\ nothingSelected(args)
    /\ args.listCenter = Centre
    /\ Len(ret) = 4
    /\ \E place \in Range(args.places) : ~inList(place) /\ groupsAccept(place, args)

(***************************************************************************)
(* Properties of the single predicate groups.  A group is observed in the  *)
(* list of a render in which no other group is selected, on the places     *)
(* within 4 km of listCenter.                                              *)
(***************************************************************************)
onlyGroup(a, group) ==
    /\ group # "search" => a.searchQuery = <<>>
    /\ ~a.showFavoritesOnly
    /\ a.filters.regions = <<>>
    /\ a.filters.categories = <<>>
    /\ a.filters.indoor = "all"
    /\ group # "ages" => a.filters.ages = <<>>
    /\ group # "prices" => a.filters.prices = <<>>

\* the interval an age bucket stands for: [lo, hi], or [lo, oo) when open
bucketInterval(bucket) ==
    CASE bucket = Age00 -> [lo |-> 0, hi |-> 0, open |-> FALSE]
      [] bucket = Age01 -> [lo |-> 0, hi |-> 1, open |-> FALSE]
      [] bucket = Age36 -> [lo |-> 3, hi |-> 6, open |-> FALSE]
      [] bucket = Age612 -> [lo |-> 6, hi |-> 12, open |-> FALSE]
      [] bucket = Age12p -> [lo |-> 12, hi |-> 12, open |-> TRUE]

overlapsBucket(place, bucket) ==
    LET b == bucketInterval(bucket)
    IN ~(place.ageRange[2] < b.lo \/ (~b.open /\ place.ageRange[1] > b.hi))

\* C11: the age group passes for a place iff no bucket is selected or some
\* selected bucket [lo, hi] overlaps the place's age range, for every bucket,
\* those with upper bound 0 and the open-ended one included.
C11_AgeGroupIsOverlap ==
    (call = "filteredPlaces" /\ onlyGroup(args, "ages")) =>
        \A place \in Range(args.places) :
            nearListCenter(place, args) =>
                (inList(place) <=>
                    \/ args.filters.ages = <<>>
                    \/ \E bucket \in Range(args.filters.ages) : overlapsBucket(place, bucket))

\* the places a selected price tier accepts
tierAccepts(tier, priceType) ==
    IF tier = "low" THEN priceType \in {"free", "low"} ELSE priceType = tier

\* C12: the price group passes for a place iff no tier is selected or some
\* selected tier accepts the place, where low accepts free and low and each
\* of free, medium, high accepts exactly its own tier.
C12_PriceGroupTiers ==
    (call = "filteredPlaces" /\ onlyGroup(args, "prices")) =>
        \A place \in Range(args.places) :
            nearListCenter(place, args) =>
                (inList(place) <=>
                    \/ args.filters.prices = <<>>
                    \/ \E tier \in Range(args.filters.prices) :
                          tierAccepts(tier, place.priceType))

\* C12 witness: only the tier low is selected; a free place and a low place
\* are listed and a medium place within 4 km is not.
C12_LowAcceptsFreeWitness ==
    /\ call = "filteredPlaces"
    /\ onlyGroup(args, "prices")
    /\ args.filters.prices = <<"low">>
    /\ \E k \in 1..Len(ret) : ret[k].priceType = "free"
    /\ \E k \in 1..Len(ret) : ret[k].priceType = "low"
    /\ \E place \in Range(args.places) :
          /\ nearListCenter(place, args)
          /\ place.priceType = "medium"
          /\ ~inList(place)

\* characters a and b are the same letter up to case
sameLetter(a, b) ==
    \/ a = b
    \/ a \in DOMAIN LowerOf /\ LowerOf[a] = b
    \/ b \in DOMAIN LowerOf /\ LowerOf[b] = a
    \/ a \in DOMAIN LowerOf /\ b \in DOMAIN LowerOf /\ LowerOf[a] = LowerOf[b]

\* query occurs in text at some offset, letters compared up to case
occursIn(query, text) ==
    \E off \in 0..(Len(text) - Len(query)) :
        \A j \in 1..Len(query) : sameLetter(text[off + j], query[j])

\* C13: the search group passes for a place iff the query is empty or the
\* query is, up to case, a substring of the place's name, of its district or
\* of the display label of its category.
C13_SearchIsCaseInsensitiveSubstring ==
    (call = "filteredPlaces" /\ onlyGroup(args, "search")) =>
        \A place \in Range(args.places) :
            nearListCenter(place, args) =>
                (inList(place) <=>
                    \/ args.searchQuery = <<>>
                    \/ occursIn(args.searchQuery, place.name)
                    \/ occursIn(args.searchQuery, place.district)
                    \/ occursIn(args.searchQuery, categoryLabels(place.category)))

\* C13 witness: a query in small letters lists a place whose category has no
\* label by its district in capitals, and leaves out a labelled place.
C13_UnlabelledMatchesByDistrictWitness ==
    /\ call = "filteredPlaces"
    /\ onlyGroup(args, "search")
    /\ args.searchQuery = <<"s", "t">>
    /\ \E k \in 1..Len(ret) :
          /\ categoryLabels(ret[k].category) = <<>>
          /\ ret[k].district = <<"S", "T">>
    /\ \E place \in Range(args.places) :
          /\ nearListCenter(place, args)
          /\ categoryLabels(place.category) # <<>>
          /\ ~inList(place)

(***************************************************************************)
(* Properties of the list's order.                                         *)
(***************************************************************************)
\* the places of the input that the filter keeps, by position in the input
keptPositions ==
    {i \in 1..Len(args.places) :
        nearListCenter(args.places[i], args) /\ groupsAccept(args.places[i], args)}

\* rank of a price tier: free = 0, low = 1, medium = 2, high = 3
tierRank(priceType) ==
    CHOOSE r \in 0..3 : <<"free", "low", "medium", "high">>[r + 1] = priceType

\* the sort key of a place in the selected mode, ascending
sortKey(place) ==
    CASE args.sortBy = "distance" -> distanceFromRef(place)
      [] args.sortBy = "priceLow" -> tierRank(place.priceType)
      [] args.sortBy = "priceHigh" -> 0 - tierRank(place.priceType)
      [] OTHER -> 0

\* C14: the sorted list is a permutation of the filtered list, ordered by the
\* key of the selected mode: non-decreasing distance from the reference point,
\* non-decreasing tier rank (priceLow) or non-increasing tier rank (priceHigh).
C14_SortedByModeKey ==
    call = "filteredPlaces" =>
        /\ Len(ret) = Cardinality(keptPositions)
        /\ {ret[k] : k \in 1..Len(ret)} = {args.places[i] : i \in keptPositions}
        /\ args.sortBy = "distance" =>
              \A k \in 1..(Len(ret) - 1) :
                  distanceFromRef(ret[k]) <= distanceFromRef(ret[k + 1])
        /\ args.sortBy = "priceLow" =>
              \A k \in 1..(Len(ret) - 1) :
                  tierRank(ret[k].priceType) <= tierRank(ret[k + 1].priceType)
        /\ args.sortBy = "priceHigh" =>
              \A k \in 1..(Len(ret) - 1) :
                  tierRank(ret[k].priceType) >= tierRank(ret[k + 1].priceType)

\* C14 witness: in priceHigh mode four places of three tiers are listed, the
\* dearest first and the free one, which came first in the input, last.
C14_PriceHighReordersWitness ==
    /\ call = "filteredPlaces"
    /\ args.sortBy = "priceHigh"
    /\ Len(ret) = 4
    /\ ret[1].priceType = "medium"
    /\ ret[4].priceType = "free"
    /\ ret[4] = args.places[1]

\* the position of a place in the input
position(place) == CHOOSE i \in 1..Len(args.places) : args.places[i] = place

\* C15: the sort is stable: two places with equal sort keys keep their input
\* order, and in default mode the output is the filtered list in input order.
C15_SortIsStable ==
    call = "filteredPlaces" =>
        /\ \A k, l \in 1..Len(ret) :
              (k < l /\ sortKey(ret[k]) = sortKey(ret[l])) =>
                  position(ret[k]) < position(ret[l])
        /\ args.sortBy = "default" =>
              ret = SelectSeq(args.places,
                        LAMBDA place : nearListCenter(place, args) /\ groupsAccept(place, args))

\* C15 witness: in priceLow mode two places of the tier low follow each other
\* in input order, after a free place and before a medium place that came
\* before both of them in the input.
C15_TieKeepsInputOrderWitness ==
    /\ call = "filteredPlaces"
    /\ args.sortBy = "priceLow"
    /\ \E k \in 1..(Len(ret) - 2) :
          /\ ret[k].priceType = "low"
          /\ ret[k + 1].priceType = "low"
          /\ position(ret[k]) < position(ret[k + 1])
          /\ ret[k + 2].priceType = "medium"
          /\ position(ret[k + 2]) < position(ret[k])

\* C16: sorting in distance mode without a reference point (no user location)
\* is an error outcome: the result is never the filtered list in its default
\* (input) order.
C16_DistanceModeWithoutReferenceFails ==
    (/\ call = "filteredPlaces_part001"
     /\ args.sortBy = "distance"
     /\ args.userLocation = <<>>) =>
        ret # SelectSeq(args.places, LAMBDA place : inList(place))

(***************************************************************************)
(* Properties of records with coordinates out of range.                    *)
(***************************************************************************)
\* latitude within [-90, 90] and longitude within [-180, 180], in millidegrees
validGeoPoint(lat, lng) ==
    /\ -90000 <= lat /\ lat <= 90000
    /\ -180000 <= lng /\ lng <= 180000

\* C17: a record whose latitude is outside [-90, 90] or whose longitude is
\* outside [-180, 180] is rejected: the parser does not produce it, and
\* neither the nearest-match lookup nor the radius filter returns it.
C17_InvalidRecordsRejected ==
    /\ call = "parseRainfallCSV" =>
           \A k \in 1..Len(ret) : validGeoPoint(ret[k].lat, ret[k].lng)
    /\ (call = "getRainfallAtLocation" /\ ret # null) => validGeoPoint(ret.lat, ret.lng)
    /\ call = "getNearbyCarparks" =>
           \A k \in 1..Len(ret) : validGeoPoint(ret[k].latitude, ret[k].longitude)

(***************************************************************************)
(* Properties of the loaders' failures.                                    *)
(***************************************************************************)
\* C18: a loader turns every failure into the empty sequence and never
\* rejects, so no load of a hook ends in the error state: every load that is
\* done and was no cache hit has received all its results, those of failed
\* requests being empty, and its error is unset.
C18_LoadersNeverReject ==
    \A h \in Hooks : \A k \in 1..Len(effects[h]) :
        LET e == effects[h][k]
        IN /\ e.error = <<>>
           /\ \A f \in e.failed : f \notin e.pending /\ e.got[f] = <<>>
           /\ e.pc = "done" => e.pending = {}
           /\ (e.pc = "done" /\ ~e.hit /\ e.mounted) => ~e.loading

\* C18 witness: every request of a mounted load failed; the load is done with
\* an empty array, not loading and without an error.
C18_AllFailedWitness ==
    \E h \in Hooks : \E k \in 1..Len(effects[h]) :
        /\ effects[h][k].failed = fetchesOf(h)
        /\ effects[h][k].pc = "done"
        /\ effects[h][k].mounted
        /\ ~effects[h][k].loading
        /\ effects[h][k].data = <<>>
        /\ effects[h][k].error = <<>>

(***************************************************************************)
(* Properties of the cache entries.                                        *)
(***************************************************************************)
\* load k of hook h fetched, was mounted when its results were in, and wrote
wrote(h, k) ==
    /\ ~effects[h][k].hit
    /\ effects[h][k].pc = "done"
    /\ ~effects[h][k].loading

\* C19: the cache holds one entry per dataset, and in every reachable state
\* its payload and its timestamp belong to the same write: either both keys
\* are unset, or one load wrote both values.
C19_EntryFromOneWrite ==
    \A h \in Hooks :
        \/ storage[h].cache = <<>> /\ storage[h].cache_time = <<>>
        \/ \E k \in 1..Len(effects[h]) :
              /\ wrote(h, k)
              /\ storage[h].cache = JSONstringify(loaded(h, effects[h][k].got))
              /\ storage[h].cache_time = toString(effects[h][k].now)

\* C19 witness: a second write replaced an entry with another payload and a
\* later timestamp; the cache holds the second write's pair.
C19_ReplacedWitness ==
    \E h \in Hooks : \E i, j \in 1..Len(effects[h]) :
        /\ i < j
        /\ wrote(h, i) /\ wrote(h, j)
        /\ loaded(h, effects[h][i].got) # loaded(h, effects[h][j].got)
        /\ effects[h][i].now < effects[h][j].now
        /\ storage[h].cache = JSONstringify(loaded(h, effects[h][j].got))
        /\ storage[h].cache_time = toString(effects[h][j].now)

(***************************************************************************)
(* Properties of the inputs after a call.                                  *)
(***************************************************************************)
\* C20: the radius filter, the map's place culling and the list's filter and
\* sort leave their input array as it was, elements, order and fields; the
\* distance is carried by new records only.
C20_InputsNotMutated ==
    /\ call = "getNearbyCarparks" =>
           /\ after = args.carparks
           /\ \A i \in 1..Len(after) : "distance" \notin DOMAIN after[i]
           /\ \A k \in 1..Len(ret) : "distance" \in DOMAIN ret[k]
    /\ call = "useFilteredPlaces" =>
           /\ after = args.places
           /\ \A i \in 1..Len(after) : "distance" \notin DOMAIN after[i]
    /\ call = "filteredPlaces" => after = args.places

\* C20 witness: of three carparks the radius filter returned two, decorated,
\* the input's last one first, and the input array is as it was.
C20_FilteredAndReorderedWitness ==
    /\ call = "getNearbyCarparks"
    /\ Len(args.carparks) = 3
    /\ Len(ret) = 2
    /\ ret[1].park_Id = 3
    /\ ret[1].distance < ret[2].distance
    /\ after = args.carparks

(***************************************************************************)
(* calculateDistance on pairs of points of a grid around the default map   *)
(* centre (rainfall.ts 273-283; carpark.ts 48-58 is the same function).    *)
(***************************************************************************)
DistanceLats == {South.lat, NearSouth.lat, Centre.lat, Far.lat}

DistanceLngs == {Centre.lng, NearSouth.lng, East.lng, Far.lng}

DistancePoints == {[lat |-> la, lng |-> ln] : la \in DistanceLats, ln \in DistanceLngs}

CallCalculateDistance ==
    /\ call = "none"
    /\ \E a \in DistancePoints, b \in DistancePoints :
           /\ call' = "calculateDistance"
           /\ args' = [a |-> a, b |-> b]
           /\ ret' = calculateDistance(a.lat, a.lng, b.lat, b.lng)
           /\ after' = <<>>
           /\ UNCHANGED <<hookVars, pageVars>>

DistanceNext == CallCalculateDistance

DistanceInit == PureInit /\ HookInit /\ PageInit

SpecDistance == DistanceInit /\ [][DistanceNext]_vars

(***************************************************************************)
(* C21: for all valid points a and b the Haversine distance is symmetric,  *)
(* distance(a, b) = distance(b, a), and distance(a, a) = 0.                *)
(***************************************************************************)
C21_DistanceSymmetricAndZeroOnSelf ==
    call = "calculateDistance" =>
        /\ ret = calculateDistance(args.b.lat, args.b.lng, args.a.lat, args.a.lng)
        /\ args.a = args.b => ret = 0

\* a pair of points on different parallels and meridians, 17 km apart
C21_DistinctParallelsWitness ==
    /\ call = "calculateDistance"
    /\ args.a = South
    /\ args.b = Far
    /\ ret > Km(15)

\* the entry of hook h is valid at the current time: both keys are set and the
\* stored time, the start time of one of the hook's loads, is less than the
\* hook's ttl ago
validEntry(h) ==
    /\ storage[h].cache # <<>>
    /\ storage[h].cache_time # <<>>
    /\ \E t \in {effects[h][k].now : k \in 1..Len(effects[h])} :
           /\ toString(t) = storage[h].cache_time
           /\ clock - t < (IF h = "useRainfallNowcast" THEN 600000 ELSE 300000)

\* the run has issued a request
fetched(run) == run.pending # {} \/ run.got # NoResults \/ run.failed # {}

\* C22: a load that finds a valid cache entry issues no network request: it
\* publishes the cached payload and returns; a load fetches only when the entry
\* is missing or expired, and a load that hit never fetches later.
C22_ValidEntryMeansNoRequest ==
    [][\A h \in Hooks :
          /\ Len(effects'[h]) = Len(effects[h]) + 1 =>
                 /\ validEntry(h) =>
                        /\ newRun(h).pending = {}
                        /\ newRun(h).pc = "done"
                        /\ JSONstringify(newRun(h).data) = storage[h].cache
                        /\ ~newRun(h).loading
                        /\ storage' = storage
                 /\ newRun(h).pending # {} => ~validEntry(h)
          /\ \A k \in 1..Len(effects'[h]) :
                 effects'[h][k].hit => ~fetched(effects'[h][k])]_vars

\* C22 witness: of two loads of a hook, the first fetched and wrote the entry,
\* and the second, later one was served from it without a request.
C22_SecondLoadServedWitness ==
    \E h \in Hooks :
        /\ Len(effects[h]) = 2
        /\ fetched(effects[h][1])
        /\ effects[h][1].pc = "done"
        /\ effects[h][2].hit
        /\ effects[h][2].now > effects[h][1].now
        /\ ~fetched(effects[h][2])
        /\ effects[h][2].data = effects[h][1].data

\* the run fetched, at least one of its fetches failed, and it finished while
\* its component was mounted
finishedFailed(run) ==
    /\ ~run.hit
    /\ run.pc = "done"
    /\ run.failed # {}
    /\ ~run.loading

namedPlaces == {i \in 1..Len(args.places) :
                   args.selectedPlaceId # NoId /\ args.places[i].id = args.selectedPlaceId}

\* C24: while the map zoom is below 13 the visible places are exactly the
\* selected place when the selected id names a place of the input and none
\* otherwise; the zoom hint is never shown at zoom >= 13.
C24_BelowZoom13OnlySelected ==
    call = "useFilteredPlaces" =>
        /\ args.zoom < 13 =>
               /\ namedPlaces = {} => ret.filteredPlaces = <<>>
               /\ \A i \in namedPlaces : ret.filteredPlaces = <<args.places[i]>>
        /\ args.zoom >= 13 => ~ret.shouldShowZoomHint

\* C24 witness: at zoom 12, of three places with two of them 2 km from the map
\* centre, only the selected one, 17 km away, is visible.
C24_ZoomedOutSelectedOnlyWitness ==
    /\ call = "useFilteredPlaces"
    /\ args.zoom = 12
    /\ Len(args.places) = 3
    /\ args.mapCenter = Centre
    /\ args.places[1].lat = South.lat
    /\ args.places[2].lat = North.lat
    /\ args.places[3].lat = Far.lat
    /\ args.selectedPlaceId = 3
    /\ ret.filteredPlaces = <<args.places[3]>>
    /\ ret.shouldShowZoomHint

(***************************************************************************)
(* The home page's map: the list's reference point, the update button and  *)
(* the locate action (page.tsx 174-199, 688-695, 723-739; MapInner.tsx     *)
(* 195-251, 267-273).  A step is one event with the renders and effects it *)
(* causes.                                                                 *)
(***************************************************************************)
NearCentre == [lat |-> 22323, lng |-> 114172]
Drift      == [lat |-> 22326, lng |-> 114174]

\* the centres the user can pan the map to
MapCentres == {Centre, NearCentre, Drift, Far}

\* the positions geolocation can report
Positions == {South, Far}

\* the zoom at which the places' bounds fit the map's container
FitZooms == {INITIAL_ZOOM - 1, INITIAL_ZOOM}

\* L.latLngBounds(places.map(p => [p.lat, p.lng])).getCenter()
boundsCenter(places) ==
    LET lats == {places[i].lat : i \in 1..Len(places)}
        lngs == {places[i].lng : i \in 1..Len(places)}
        lo(S) == CHOOSE x \in S : \A y \in S : x <= y
        hi(S) == CHOOSE x \in S : \A y \in S : x >= y
    IN [lat |-> (lo(lats) + hi(lats)) \div 2, lng |-> (lo(lngs) + hi(lngs)) \div 2]

\* onCenterChange moving the list's reference point along with the map
onCenterChangeMovingList(h, center) ==
    LET distance == calculateDistanceKm(h.listCenter.lat, h.listCenter.lng,
                                        center.lat, center.lng)
    IN [h EXCEPT !.mapCenter = center,
                 !.listCenter = center,
                 !.hasMapMoved = IF distance > Km(1) \div 2 THEN TRUE ELSE @]

\* onCenterChange measuring the move from the last map centre
onCenterChangeFromLastCentre(h, center) ==
    LET distance == calculateDistanceKm(h.mapCenter.lat, h.mapCenter.lng,
                                        center.lat, center.lng)
    IN [h EXCEPT !.mapCenter = center,
                 !.hasMapMoved = IF distance > Km(1) \div 2 THEN TRUE ELSE @]

\* Home's onCenterChange prop (page.tsx 688-695); 0.5 km is Km(1) \div 2
onCenterChange(h, center) ==
    LET distance == calculateDistanceKm(h.listCenter.lat, h.listCenter.lng,
                                        center.lat, center.lng)
    IN [h EXCEPT !.mapCenter = center,
                 !.hasMapMoved = IF distance > Km(1) \div 2 THEN TRUE ELSE @]

\* MapRef's effect on [center, onCenterChange] after a render of Home: the
\* prop is a new function on every render, so the effect runs again
rendered(h, l) == IF l.mounted THEN onCenterChange(h, l.center) ELSE h

\* MapViewController's effect on [locateAction, map]
applyLocate(h, l) ==
    IF h.locateAction # <<>> /\ h.locateAction[1].trigger # l.lastLocateTriggerRef
    THEN [l EXCEPT !.lastLocateTriggerRef = h.locateAction[1].trigger,
                   !.center = [lat |-> h.locateAction[1].lat, lng |-> h.locateAction[1].lng],
                   !.zoom = MIN_ZOOM_FOR_PINS,
                   !.applied = @ + 1]
    ELSE l

\* MapBounds' effect with hasFittedRef false: map.fitBounds(bounds)
fitBounds(l, places, z) ==
    IF Len(places) > 0 THEN [l EXCEPT !.center = boundsCenter(places), !.zoom = z]
    ELSE l

\* Home.filteredPlaces with the filters and the sort mode of the initial state
homeList(h) ==
    filteredPlaces(Dataset, [regions |-> <<>>, categories |-> <<>>, ages |-> <<>>,
                             prices |-> <<>>, indoor |-> "all"],
                   <<>>, h.showFavoritesOnly, h.favorites, "default", h.listCenter)

\* the map component mounts (the Map chunk has loaded, or the map is shown
\* again): the effects of MapViewController and MapBounds run, then MapRef's,
\* which report the initial centre and then the centre of the fitted view
MountMap ==
    /\ home.showMap
    /\ ~leaflet.mounted
    /\ leaflet.mounts < MaxMounts
    /\ \E z \in FitZooms :
           LET created0 == [noMap(leaflet.mounts + 1, leaflet.applied)
                               EXCEPT !.mounted = TRUE]
               located == applyLocate(home, created0)
               fitted == fitBounds(located, Dataset, z)
           IN /\ leaflet' = fitted
              /\ home' = onCenterChange(onCenterChange(home, created0.center),
                                        fitted.center)
    /\ UNCHANGED <<parentMapFavorites, pureVars, hookVars>>

\* the show/hide map button: setShowMap(!showMap)
ToggleShowMap ==
    /\ home' = [home EXCEPT !.showMap = ~@]
    /\ leaflet' = noMap(leaflet.mounts, leaflet.applied)
    /\ UNCHANGED <<parentMapFavorites, pureVars, hookVars>>

\* the user pans the map: moveend, setCenter, onCenterChange
MoveMap(c) ==
    /\ leaflet.mounted
    /\ c # leaflet.center
    /\ leaflet' = [leaflet EXCEPT !.center = c]
    /\ home' = onCenterChange(home, c)
    /\ UNCHANGED <<parentMapFavorites, pureVars, hookVars>>

\* the update-list button, disabled while hasMapMoved is false
ClickUpdate ==
    /\ home.showMap
    /\ home.hasMapMoved
    /\ home' = rendered([home EXCEPT !.listCenter = home.mapCenter,
                                     !.hasMapMoved = FALSE], leaflet)
    /\ UNCHANGED <<leaflet, parentMapFavorites, pureVars, hookVars>>

\* handleLocate's success callback, then MapViewController's effect
LocateSuccess(pos) ==
    /\ LET newLocation == [lat |-> pos.lat, lng |-> pos.lng]
           h == [home EXCEPT !.userLocation = <<newLocation>>,
                             !.locateAction = <<[lat |-> pos.lat, lng |-> pos.lng,
                                                 trigger |-> clock]>>]
           l == IF leaflet.mounted THEN applyLocate(h, [leaflet EXCEPT !.applied = 0])
                ELSE [leaflet EXCEPT !.applied = 0]
       IN /\ leaflet' = l
          /\ home' = rendered(h, l)
    /\ UNCHANGED <<parentMapFavorites, pureVars, hookVars>>

\* time passes
PageTick ==
    /\ ticks < MaxTicks
    /\ clock' = clock + 1
    /\ ticks' = ticks + 1
    /\ UNCHANGED <<storage, effects, pageVars, pureVars>>

MapNext ==
    \/ MountMap
    \/ ToggleShowMap
    \/ \E c \in MapCentres : MoveMap(c)
    \/ ClickUpdate
    \/ \E pos \in Positions : LocateSuccess(pos)
    \/ PageTick

\* Date.now() is positive
MapInit ==
    /\ PureInit
    /\ PageInit
    /\ clock = 1
    /\ ticks = 0
    /\ storage = [h \in Hooks |-> [cache |-> <<>>, cache_time |-> <<>>]]
    /\ effects = [h \in Hooks |-> <<>>]

SpecMap == MapInit /\ [][MapNext]_vars

(***************************************************************************)
(* Properties of the list's reference point.                               *)
(***************************************************************************)
\* C25: listCenter is frozen: a change of the map centre alone changes neither
\* listCenter nor the filtered list; listCenter changes only by a click on the
\* enabled update button, which sets it to the current map centre and clears
\* hasMapMoved.
C25_ListCenterFrozenUntilUpdate ==
    [][/\ (home'.mapCenter # home.mapCenter \/ leaflet'.center # leaflet.center) =>
              /\ home'.listCenter = home.listCenter
              /\ homeList(home') = homeList(home)
       /\ home'.listCenter # home.listCenter =>
              /\ home.showMap
              /\ home.hasMapMoved
              /\ home'.listCenter = home.mapCenter
              /\ leaflet.mounted => home'.listCenter = leaflet.center
              /\ ~home'.hasMapMoved
              /\ leaflet' = leaflet]_vars

\* C25 witness: the list was updated to the map centre 17 km out, and the map
\* has since been moved back next to the default centre while the list still
\* shows the places around the point 17 km out.
C25_MapMovedAwayFromListWitness ==
    /\ home.listCenter = Far
    /\ home.mapCenter = Drift
    /\ leaflet.mounted
    /\ leaflet.center = Drift
    /\ home.hasMapMoved
    /\ homeList(home) # homeList(initialHome)

\* the distance in metres between two points, at most half a kilometre
within500m(a, b) == calculateDistanceKm(a.lat, a.lng, b.lat, b.lng) * 2 <= Km(1)

\* C26: whenever hasMapMoved is false, the current map centre is within 0.5 km
\* of listCenter.
C26_SyncedMeansNearListCenter ==
    ~home.hasMapMoved =>
        /\ within500m(home.listCenter, home.mapCenter)
        /\ leaflet.mounted => within500m(home.listCenter, leaflet.center)

\* C26 witness: after an update at one point the map was moved 0.4 km to
\* another, and the button still reads synced.
C26_SmallMoveAfterUpdateWitness ==
    /\ ~home.hasMapMoved
    /\ home.listCenter = Drift
    /\ leaflet.mounted
    /\ leaflet.center = NearCentre
    /\ home.mapCenter = NearCentre

(***************************************************************************)
(* Properties of the locate action.                                        *)
(***************************************************************************)
\* C29: each locate action recentres the map exactly once: while the map shows
\* and Home holds a locate action, map.setView has been called once for it.
C29_EachLocateRecentresOnce ==
    (home.locateAction # <<>> /\ leaflet.mounted) => leaflet.applied = 1

(***************************************************************************)
(* The favorites of the home page (page.tsx 103-109 and 150-158).          *)
(***************************************************************************)
\* toggleFavorite adding the id whether or not the list has it
toggleFavoriteAppendOnly(favorites, id) == Append(favorites, id)

\* the list toggleFavorite(id) sets: newFavorites
toggleFavorite(favorites, id) ==
    IF \E i \in 1..Len(favorites) : favorites[i] = id
    THEN SelectSeq(favorites, LAMBDA f : f # id)
    ELSE Append(favorites, id)

\* JSON.parse of a text JSONstringify wrote for a list of ids
parseFavorites(text) == [i \in 1..(Len(text) - 2) |-> parseInt(<<text[i + 1]>>)]

FavoriteIds == {Dataset[i].id : i \in 1..Len(Dataset)}

ToggleFavorite(id) ==
    /\ LET newFavorites == toggleFavorite(home.favorites, id)
       IN /\ home' = rendered([home EXCEPT !.favorites = newFavorites], leaflet)
          /\ parentMapFavorites' = JSONstringify(newFavorites)
    /\ UNCHANGED <<leaflet, pureVars, hookVars>>

\* the page is loaded again: Home's state starts over and the load effect
\* reads the saved favorites
LoadHome ==
    /\ home' = [initialHome EXCEPT
                   !.favorites = IF parentMapFavorites # <<>>
                                 THEN parseFavorites(parentMapFavorites)
                                 ELSE @]
    /\ leaflet' = noMap(leaflet.mounts, 0)
    /\ UNCHANGED <<parentMapFavorites, pureVars, hookVars>>

FavoritesNext ==
    \/ \E id \in FavoriteIds : ToggleFavorite(id)
    \/ LoadHome

FavoritesInit == PureInit /\ HookInit /\ PageInit

SpecFavorites == FavoritesInit /\ [][FavoritesNext]_vars

\* the ids the list holds
members(favorites) == {favorites[i] : i \in 1..Len(favorites)}

\* C28: toggleFavorite(id) flips the membership of exactly that id in the
\* favorites and leaves every other id's membership as it was, whatever calls
\* came before; the list never holds an id twice, and a step that is no call of
\* toggleFavorite keeps the set of favorites.
C28_ToggleFlipsExactlyOneId ==
    [][/\ \A id \in FavoriteIds :
              ToggleFavorite(id) =>
                  /\ id \in members(home'.favorites) <=> id \notin members(home.favorites)
                  /\ \A other \in FavoriteIds \ {id} :
                         other \in members(home'.favorites)
                             <=> other \in members(home.favorites)
       /\ (\A id \in FavoriteIds : ~ToggleFavorite(id)) =>
              members(home'.favorites) = members(home.favorites)
       /\ Cardinality(members(home'.favorites)) = Len(home'.favorites)]_vars

\* C28 witness: after several calls ids 2, 3 and 1 are the favorites, in the
\* order the calls left them, and the saved text holds the same list.
C28_ReaddedIdWitness ==
    /\ home.favorites = <<2, 3, 1>>
    /\ parentMapFavorites = <<"[", "2", "3", "1", "]">>

(***************************************************************************)
(* mergeCarparksWithVacancies (rainfall.ts 397-406) on carpark lists that  *)
(* may repeat an id and vacancy lists that may repeat an id or name an id  *)
(* no carpark has.                                                         *)
(***************************************************************************)
MergeCarparks ==
    {[park_Id |-> 1, latitude |-> Centre.lat, longitude |-> Centre.lng],
     [park_Id |-> 2, latitude |-> South.lat, longitude |-> South.lng],
     [park_Id |-> 1, latitude |-> North.lat, longitude |-> North.lng]}

MergeVacancies ==
    {[park_Id |-> 1, vacancy |-> 5], [park_Id |-> 1, vacancy |-> 7],
     [park_Id |-> 2, vacancy |-> 0], [park_Id |-> 9, vacancy |-> 3]}

CallMergeCarparksWithVacancies ==
    /\ call = "none"
    /\ \E carparks \in UNION {[1..n -> MergeCarparks] : n \in 0..MaxLen},
          vacancies \in UNION {[1..n -> MergeVacancies] : n \in 0..MaxLen} :
           /\ call' = "mergeCarparksWithVacancies"
           /\ args' = [carparks |-> carparks, vacancies |-> vacancies]
           /\ ret' = mergeCarparksWithVacancies(carparks, vacancies)
           /\ after' = carparks
           /\ UNCHANGED <<hookVars, pageVars>>

MergeNext == CallMergeCarparksWithVacancies

MergeInit == PureInit /\ HookInit /\ PageInit

SpecMerge == MergeInit /\ [][MergeNext]_vars

\* C30: mergeCarparksWithVacancies returns one entry per input carpark, in
\* input order; the entry's vacancy is a vacancy record of the input with the
\* carpark's park_Id, or absent when the input has no such record; vacancy
\* records of ids no carpark has are in no entry.
C30_OneEntryPerCarparkInOrder ==
    call = "mergeCarparksWithVacancies" =>
        /\ Len(ret) = Len(args.carparks)
        /\ \A i \in 1..Len(ret) :
               LET same == {j \in 1..Len(args.vacancies) :
                               args.vacancies[j].park_Id = args.carparks[i].park_Id}
               IN /\ ret[i].park_Id = args.carparks[i].park_Id
                  /\ ret[i].latitude = args.carparks[i].latitude
                  /\ ret[i].longitude = args.carparks[i].longitude
                  /\ same = {} => ret[i].vacancy = NoVacancy
                  /\ same # {} => \E j \in same : ret[i].vacancy = args.vacancies[j]

\* C30 witness: of two carparks the first has a vacancy record and the second
\* has none, while the vacancy list begins with a record of an unknown id.
C30_UnknownIdIgnoredWitness ==
    /\ call = "mergeCarparksWithVacancies"
    /\ Len(args.carparks) = 2
    /\ args.carparks[1].park_Id = 1
    /\ args.carparks[2].park_Id = 2
    /\ args.vacancies = <<[park_Id |-> 9, vacancy |-> 3], [park_Id |-> 1, vacancy |-> 5]>>
    /\ ret[1].vacancy = [park_Id |-> 1, vacancy |-> 5]
    /\ ret[2].vacancy = NoVacancy

(***************************************************************************)
(* The data hooks with a cache another script can damage, with every       *)
(* request settling in the end, and with time passing a ttl at a time.     *)
(***************************************************************************)
\* the payload key of hook h is overwritten with text that is no JSON
CorruptCache(h) ==
    /\ storage[h].cache # <<>>
    /\ storage[h].cache # <<"[">>
    /\ storage' = [storage EXCEPT ![h] = setItem(@, "cache", <<"[">>)]
    /\ UNCHANGED <<clock, ticks, effects, pureVars, pageVars>>

\* one of the outstanding requests settles
SettleSome ==
    \E h \in Hooks : \E k \in 1..Len(effects[h]) :
        \E f \in fetchesOf(h) : \E outcome \in FetchOutcomes :
            \E body \in responseBodies(f, outcome) : Settle(h, k, f, outcome, body)

\* time passes until the entry of the hook in use has expired (the loads
\* started before the step find it fresh, those started after it do not)
ExpiryTick ==
    /\ ticks < MaxTicks
    /\ \E h \in {g \in Hooks : effects[g] # <<>>} : clock' = clock + ttlMs(h)
    /\ ticks' = ticks + 1
    /\ UNCHANGED <<storage, effects, pureVars, pageVars>>

HookFairNext ==
    \/ \E h \in Hooks : Mount(h)
    \/ \E h \in Hooks : Unmount(h)
    \/ SettleSome
    \/ ExpiryTick
    \/ \E h \in Hooks : CorruptCache(h)

HookFairInit == PureInit /\ HookInit /\ PageInit

SpecHookFair == HookFairInit /\ [][HookFairNext]_vars /\ WF_vars(SettleSome)

\* no run whose component is mounted has loading true
noMountedRunLoading ==
    \A h \in Hooks : \A k \in 1..Len(effects[h]) :
        effects[h][k].mounted => ~effects[h][k].loading

\* C27: for a hook that stays mounted, loading becomes false in the end on
\* every path (cache hit, fetch success, fetch failure, an exception such as a
\* cached payload that does not parse), given that its requests settle; once
\* false, loading never becomes true again.  A run never mounts again once
\* unmounted, so a run that stays mounted has loading false from the next
\* moment with no mounted run loading, and such a moment always comes.
C27_LoadingEndsAndStaysFalse ==
    /\ []<>noMountedRunLoading
    /\ [][\A h \in Hooks : \A k \in 1..Len(effects[h]) :
              ~effects[h][k].loading => ~effects'[h][k].loading]_vars

\* C27 witness: a load found a fresh entry whose payload does not parse, and
\* ended with the error set and loading false while mounted.
C27_CorruptPayloadWitness ==
    \E h \in Hooks : \E k \in 1..Len(effects[h]) :
        /\ effects[h][k].mounted
        /\ effects[h][k].hit
        /\ effects[h][k].error # <<>>
        /\ ~effects[h][k].loading
        /\ effects[h][k].data = <<>>

====
